---- MODULE Spec2Model ----
(***************************************************************************)
(* Model of the scheduling decision engine of the instance scheduler:      *)
(* InstanceScheduler.run, its account generator, _process_account, the     *)
(* per-instance state machine (_process_new_desired_state) and the batch   *)
(* commit (_start_and_stop_instances), together with the instance-state    *)
(* store the engine drives.                                                *)
(***************************************************************************)
EXTENDS Integers, Sequences, FiniteSets, TLC

(***************************************************************************)
(* Values                                                                  *)
(***************************************************************************)
None == "None"

STATE_UNKNOWN == "unknown"
STATE_ANY == "any"
STATE_STOPPED == "stopped"
STATE_STOPPED_FOR_RESIZE == "stopped_for_resize"
STATE_RUNNING == "running"
STATE_RETAIN_RUNNING == "retain_running"

\* what schedule.get_desired_state can return
DesiredStates == {STATE_RUNNING, STATE_STOPPED, STATE_STOPPED_FOR_RESIZE, STATE_ANY}

\* what a record of the state store can hold ("unknown" stands for no record)
RecordStates == DesiredStates \cup {STATE_RETAIN_RUNNING, STATE_UNKNOWN}

\* the states a driver yields for an instance of a start or stop batch;
\* "None" stands for an instance the driver yields nothing for
DriverStates == {STATE_RUNNING, STATE_STOPPED}
DriverResults == DriverStates \cup {None}

\* outcomes of sts.assume_role for a remote account
\* "Other" is a ClientError with another error code, "Raises" an exception that is not a
\* ClientError; "AccessDeniedNoInvoke" is AccessDenied followed by a lambda invoke of the
\* deconfigure notice that raises
AssumeOutcomes == {"ok", "AccessDenied", "AccessDeniedNoInvoke", "Other", "Raises"}

(***************************************************************************)
(* The universe the inputs are drawn from                                  *)
(***************************************************************************)
LambdaAccount == "host"
HomeRegion == "home"
IdSeq == <<"i1", "i2">>
Ids == {IdSeq[k] : k \in 1..Len(IdSeq)}
IdIndex(id) == CHOOSE k \in 1..Len(IdSeq) : IdSeq[k] = id
InstanceTypes == {"t1"}
DesiredTypes == {None, "t1", "t2"}

\* the configuration most runs are given: the hosting account is scheduled, it is named
\* again among the remote accounts, one region, a service that resizes, telemetry allowed
BaseConfiguration ==
    [ schedule_lambda_account |-> TRUE,
      remote_account_ids |-> <<"a1", "host">>,
      regions |-> <<"r1">>,
      service_allow_resize |-> TRUE,
      send_metrics |-> TRUE ]

\* the configurations that differ from it in one setting
NoMetricsConfiguration == [BaseConfiguration EXCEPT !.send_metrics = FALSE]
NoResizeConfiguration == [BaseConfiguration EXCEPT !.service_allow_resize = FALSE]
NoRegionsConfiguration == [BaseConfiguration EXCEPT !.regions = <<>>]
TwoRegionsConfiguration == [BaseConfiguration EXCEPT !.regions = <<"r2", "r1">>]
RemotesConfiguration == [BaseConfiguration EXCEPT !.remote_account_ids = <<"a1", "a2", "a1">>]
NoLambdaConfiguration == [BaseConfiguration EXCEPT !.schedule_lambda_account = FALSE]

\* the configurations the engine is run under
Configurations ==
    { BaseConfiguration, NoMetricsConfiguration, NoResizeConfiguration,
      NoRegionsConfiguration, TwoRegionsConfiguration, RemotesConfiguration,
      NoLambdaConfiguration }

Range(s) == {s[k] : k \in 1..Len(s)}
AllAccounts == {LambdaAccount} \cup UNION {Range(c.remote_account_ids) : c \in Configurations}
AllRegions == {HomeRegion} \cup UNION {Range(c.regions) : c \in Configurations}
Scopes == AllAccounts \X AllRegions
NoScope == <<None, None>>

\* the schedules of the configuration: name -> flags
Schedule(e, r, s) == [enforced |-> e, retain_running |-> r, stop_new_instances |-> s]
Schedules ==
    [ plain     |-> Schedule(FALSE, FALSE, FALSE),
      retain    |-> Schedule(FALSE, TRUE, FALSE),
      enforced  |-> Schedule(TRUE, FALSE, FALSE),
      enfretain |-> Schedule(TRUE, TRUE, TRUE) ]
ScheduleNames == DOMAIN Schedules

\* SchedulerConfig.get_schedule: is there a schedule of that name
has_schedule(name) == name \in ScheduleNames

\* an instance as the driver yields it
Instance(id, running, terminated, schedule_name, type, allow_resize) ==
    [ id |-> id, is_running |-> running, is_terminated |-> terminated,
      schedule_name |-> schedule_name, instancetype |-> type,
      allow_resize |-> allow_resize, resized |-> FALSE ]

\* the test that overlooks the instance's allow_resize
need_and_can_resize_AnyInstance(instance, desired_type) ==
    desired_type # None /\ instance.instancetype # desired_type

\* need_and_can_resize
need_and_can_resize(instance, desired_type) ==
    IF desired_type # None /\ instance.instancetype # desired_type
    THEN instance.allow_resize
    ELSE FALSE

\* the first instance takes every input; the instances beside it carry the plain schedule,
\* which evaluates to running or stopped and pins no type
FirstId == IdSeq[1]
TagsOf(id) == IF id = FirstId THEN {"plain", "retain", "enforced", "enfretain", "missing"}
              ELSE {"plain"}
DesiredStatesOf(id) == IF id = FirstId
                       THEN {"running", "stopped", "stopped_for_resize", "any"}
                       ELSE {"running", "stopped"}
DesiredTypesOf(id) == IF id = FirstId THEN DesiredTypes ELSE {None}

\* one step of the driver's listing: the instance it yields and, for a live instance, what
\* its schedule evaluates to (get_desired_state_and_type) and whether the driver's
\* resize_instance would return (resize_ok) or raise
ObsEvent(kind, instance, desired_state, desired_type, resize_ok) ==
    [ kind |-> kind, instance |-> instance, desired_state |-> desired_state,
      desired_type |-> desired_type, resize_ok |-> resize_ok ]
TerminatedEvents(id) ==
    { ObsEvent("terminated", Instance(id, FALSE, TRUE, name, "t1", FALSE), None, None, TRUE) :
        name \in TagsOf(id) \cap {"plain", "enfretain", "missing"} }
UnknownScheduleEvents(id) ==
    { ObsEvent("live", Instance(id, running, FALSE, name, "t1", FALSE), None, None, TRUE) :
        running \in BOOLEAN, name \in TagsOf(id) \ ScheduleNames }
\* the inputs that no branch reads are not told apart: a desired type comes with a desired
\* state of running, allow_resize and the outcome of the resize with a resize that is needed
DecisionEvents(id) ==
    { e \in { ObsEvent("live", Instance(id, running, FALSE, name, type, allow), d, t, ok) :
                running \in BOOLEAN, name \in TagsOf(id) \cap ScheduleNames,
                type \in InstanceTypes, allow \in BOOLEAN, d \in DesiredStatesOf(id),
                t \in DesiredTypesOf(id), ok \in BOOLEAN } :
        /\ e.desired_state # STATE_RUNNING => e.desired_type = None
        /\ ~need_and_can_resize(e.instance, e.desired_type) => e.resize_ok
        /\ (e.instance.is_running \/ e.desired_type \in {None, e.instance.instancetype})
              => e.instance.allow_resize }
ObsEvents(id) == TerminatedEvents(id) \cup UnknownScheduleEvents(id) \cup DecisionEvents(id)

\* the runs follow no script: every input is drawn afresh
NoScript ==
    [ on |-> FALSE, assume |-> [a \in AllAccounts |-> "ok"], obs |-> [s \in Scopes |-> <<>>],
      result |-> [id \in Ids |-> None], raises |-> FALSE ]

MaxRuns == 3

(***************************************************************************)
(* Finite maps (python dicts)                                              *)
(***************************************************************************)
EmptyMap == <<>>
Put(m, k, v) == [x \in (DOMAIN m) \cup {k} |-> IF x = k THEN v ELSE m[x]]
Get(m, k, d) == IF k \in DOMAIN m THEN m[k] ELSE d

(***************************************************************************)
(* The instance-state store (InstanceStates).  The engine's view of one    *)
(* scope while it decides is the record st = [states, start, stop, resize]:*)
(* the in-memory records and the three batches.                            *)
(***************************************************************************)
NoRecords == [id \in Ids |-> STATE_UNKNOWN]

\* InstanceStates.load: the records of the scope, read into memory
Load(tbl, scope) == tbl[scope]

\* InstanceStates.get_instance_state
get_instance_state(states, id) == states[id]

\* InstanceStates.set_instance_state
set_instance_state(st, id, state) == [st EXCEPT !.states[id] = state]

\* InstanceStates.delete_instance_state
delete_instance_state(st, id) == [st EXCEPT !.states[id] = STATE_UNKNOWN]

\* InstanceStates.cleanup: drop the in-memory records of ids that were not observed
Cleanup(states, observed) ==
    [id \in Ids |-> IF id \in observed THEN states[id] ELSE STATE_UNKNOWN]

\* InstanceStates.save: persist the in-memory snapshot under the loaded scope
Save(tbl, scope, states) ==
    IF scope = NoScope THEN tbl ELSE [tbl EXCEPT ![scope] = states]

(***************************************************************************)
(* _process_new_desired_state                                              *)
(***************************************************************************)
\* resize_ok: whether the driver's resize_instance returned (TRUE) or raised (FALSE)
resize_instance(st, inst, new_type, resize_ok) ==
    IF resize_ok
    THEN [st EXCEPT !.resize = Append(@, <<inst, new_type>>)]
    ELSE st

\* the branch for a last desired state of retain_running
RetainRunningBranch(st, instance, desired_state) ==
    IF desired_state = STATE_RUNNING THEN st
    ELSE IF desired_state = STATE_STOPPED
         THEN set_instance_state(st, instance.id, STATE_STOPPED)
         ELSE set_instance_state(st, instance.id, desired_state)

\* the running branch with the test of the last desired state left out
RunningBranch_RetainAlways(st, instance, desired_type, last_desired_state, retain_running, resize_ok) ==
    IF ~instance.is_running
    THEN LET resized == IF need_and_can_resize(instance, desired_type)
                        THEN resize_instance(st, instance, desired_type, resize_ok)
                        ELSE st
         IN  [resized EXCEPT !.start = Append(@, instance)]
    ELSE IF retain_running
         THEN set_instance_state(st, instance.id, STATE_RETAIN_RUNNING)
         ELSE IF last_desired_state = STATE_STOPPED
              THEN set_instance_state(st, instance.id, STATE_RUNNING)
              ELSE st

\* the running branch that batches a start for a running instance as well
RunningBranch_StartsRunning(st, instance, desired_type, last_desired_state, retain_running, resize_ok) ==
    LET resized == IF need_and_can_resize(instance, desired_type)
                   THEN resize_instance(st, instance, desired_type, resize_ok)
                   ELSE st
    IN  [resized EXCEPT !.start = Append(@, instance)]

\* the branch for a desired state of running
RunningBranch(st, instance, desired_type, last_desired_state, retain_running, resize_ok) ==
    IF ~instance.is_running
    THEN LET resized == IF need_and_can_resize(instance, desired_type)
                        THEN resize_instance(st, instance, desired_type, resize_ok)
                        ELSE st
         IN  [resized EXCEPT !.start = Append(@, instance)]
    ELSE IF last_desired_state = STATE_STOPPED
         THEN IF retain_running
              THEN set_instance_state(st, instance.id, STATE_RETAIN_RUNNING)
              ELSE set_instance_state(st, instance.id, STATE_RUNNING)
         ELSE st

\* the stopped branch that forgets to record a stopped instance
StoppedBranch_NoRecord(st, instance, desired_state) ==
    IF instance.is_running
    THEN [st EXCEPT !.stop = Append(@, IF desired_state = STATE_STOPPED_FOR_RESIZE
                                       THEN [instance EXCEPT !.resized = TRUE]
                                       ELSE instance)]
    ELSE st

\* the stopped branch that appends the instance to both batches
StoppedBranch_AlsoStart(st, instance, desired_state) ==
    IF instance.is_running
    THEN [st EXCEPT !.stop = Append(@, instance), !.start = Append(@, instance)]
    ELSE set_instance_state(st, instance.id, STATE_STOPPED)

\* the stopped branch that records stopped for the instance it puts on the stop batch
StoppedBranch_RecordsBatched(st, instance, desired_state) ==
    IF instance.is_running
    THEN set_instance_state(
             [st EXCEPT !.stop = Append(@, IF desired_state = STATE_STOPPED_FOR_RESIZE
                                           THEN [instance EXCEPT !.resized = TRUE]
                                           ELSE instance)],
             instance.id, STATE_STOPPED)
    ELSE set_instance_state(st, instance.id, STATE_STOPPED)

\* the branch for a desired state of stopped or stopped_for_resize
StoppedBranch(st, instance, desired_state) ==
    IF instance.is_running
    THEN [st EXCEPT !.stop = Append(@, IF desired_state = STATE_STOPPED_FOR_RESIZE
                                       THEN [instance EXCEPT !.resized = TRUE]
                                       ELSE instance)]
    ELSE set_instance_state(st, instance.id, STATE_STOPPED)

process_new_desired_state(st, instance, desired_state, desired_type, last_desired_state, retain_running, resize_ok) ==
    IF last_desired_state = STATE_RETAIN_RUNNING
    THEN RetainRunningBranch(st, instance, desired_state)
    ELSE IF desired_state = STATE_RUNNING
         THEN RunningBranch(st, instance, desired_type, last_desired_state,
                            retain_running, resize_ok)
         ELSE IF desired_state \in {STATE_STOPPED, STATE_STOPPED_FOR_RESIZE}
              THEN StoppedBranch(st, instance, desired_state)
              ELSE set_instance_state(st, instance.id, desired_state)

(***************************************************************************)
(* _process_account: the decision for one instance with a known schedule   *)
(***************************************************************************)
\* the sparing test with the stop_new_instances flag read the wrong way round
IsSparedNewInstance_Inverted(instance, schedule, desired_state, last_desired_state) ==
    /\ last_desired_state = STATE_UNKNOWN
    /\ instance.is_running
    /\ desired_state = STATE_STOPPED
    /\ schedule.stop_new_instances

\* a first-sighted running instance that is spared for this cycle
IsSparedNewInstance(instance, schedule, desired_state, last_desired_state) ==
    /\ last_desired_state = STATE_UNKNOWN
    /\ instance.is_running
    /\ desired_state = STATE_STOPPED
    /\ ~schedule.stop_new_instances

\* the enforcement test that only looks for instances to stop
EnforcedMismatch_OnlyStop(instance, desired_state) ==
    instance.is_running /\ desired_state = STATE_STOPPED

\* the enforcement test of an existing instance
EnforcedMismatch(instance, desired_state) ==
    \/ instance.is_running /\ desired_state = STATE_STOPPED
    \/ ~instance.is_running /\ desired_state = STATE_RUNNING

\* the test that applies the new-state transition to every instance that is not spared
AppliesNewState_Always(instance, schedule, desired_state, last_desired_state) ==
    ~IsSparedNewInstance(instance, schedule, desired_state, last_desired_state)

\* the test that compares the desired state with the live state under every schedule
AppliesNewState_EnforceAll(instance, schedule, desired_state, last_desired_state) ==
    IF last_desired_state = STATE_UNKNOWN
    THEN ~IsSparedNewInstance(instance, schedule, desired_state, last_desired_state)
    ELSE EnforcedMismatch(instance, desired_state)

\* the test that ignores the last desired state under a schedule that is not enforced
AppliesNewState_IgnoreLast(instance, schedule, desired_state, last_desired_state) ==
    IF last_desired_state = STATE_UNKNOWN
    THEN ~IsSparedNewInstance(instance, schedule, desired_state, last_desired_state)
    ELSE IF schedule.enforced
         THEN EnforcedMismatch(instance, desired_state)
         ELSE TRUE

\* whether the new-state transition is applied to the instance
\* the test of a non-enforced schedule with the comparison the wrong way round
AppliesNewState_EqualStates(instance, schedule, desired_state, last_desired_state) ==
    IF last_desired_state = STATE_UNKNOWN
    THEN ~IsSparedNewInstance(instance, schedule, desired_state, last_desired_state)
    ELSE IF schedule.enforced
         THEN EnforcedMismatch(instance, desired_state)
         ELSE last_desired_state = desired_state

\* the test that treats an enforced schedule as any other one
AppliesNewState_EnforcedAsPlain(instance, schedule, desired_state, last_desired_state) ==
    IF last_desired_state = STATE_UNKNOWN
    THEN ~IsSparedNewInstance(instance, schedule, desired_state, last_desired_state)
    ELSE last_desired_state # desired_state

\* the test that applies the transition under an enforced schedule on a changed desired
\* state as well
AppliesNewState_EnforcedOrChanged(instance, schedule, desired_state, last_desired_state) ==
    IF last_desired_state = STATE_UNKNOWN
    THEN ~IsSparedNewInstance(instance, schedule, desired_state, last_desired_state)
    ELSE IF schedule.enforced
         THEN EnforcedMismatch(instance, desired_state) \/ last_desired_state # desired_state
         ELSE last_desired_state # desired_state

AppliesNewState(instance, schedule, desired_state, last_desired_state) ==
    IF last_desired_state = STATE_UNKNOWN
    THEN ~IsSparedNewInstance(instance, schedule, desired_state, last_desired_state)
    ELSE IF schedule.enforced
         THEN EnforcedMismatch(instance, desired_state)
         ELSE last_desired_state # desired_state

\* whether the decision calls the driver's resize_instance
ResizeCalled(instance, schedule, desired_state, desired_type, last_desired_state) ==
    /\ AppliesNewState(instance, schedule, desired_state, last_desired_state)
    /\ last_desired_state # STATE_RETAIN_RUNNING
    /\ desired_state = STATE_RUNNING
    /\ ~instance.is_running
    /\ need_and_can_resize(instance, desired_type)

DecideInstance(st, instance, schedule, desired_state, desired_type, last_desired_state, resize_ok) ==
    IF IsSparedNewInstance(instance, schedule, desired_state, last_desired_state)
    THEN set_instance_state(st, instance.id, STATE_STOPPED)
    ELSE IF AppliesNewState(instance, schedule, desired_state, last_desired_state)
         THEN process_new_desired_state(st, instance, desired_state, desired_type,
                                        last_desired_state, schedule.retain_running,
                                        resize_ok)
         ELSE st

VARIABLES
    handler,            \* SchedulerRequestHandler: the event, the configuration store and _configuration
    tags,               \* build_tags_from_template: its arguments and the tags it builds
    window,             \* ssm_maintenance_windows: the SSM window and the schedule built for it
    desired,            \* get_desired_state_and_type: its arguments and what it returns
    cfg,                \* the scheduler configuration of the handler
    script,             \* the inputs every run is given, when the runs repeat one script
    run_no,             \* the number of the run, counted when the runs repeat one script
    pc,                 \* position of the engine
    table,              \* the persisted state table: scope -> id -> record
    state_info,         \* InstanceStates: the in-memory records
    loaded,             \* InstanceStates: the scope of the last load
    gen,                \* _accounts generator: index of the next remote account, 0 at its start
    accounts_done,      \* _accounts generator: accounts_done
    notices,            \* accounts the deconfigure notice was invoked for in this run
    notice_errors,      \* accounts whose notice invoke raised (logged)
    account,            \* the account being processed
    region_idx,         \* _process_account: position in self._regions
    state_loaded,       \* _process_account: state_loaded
    instances,          \* _process_account: instances
    start_list,         \* self._scheduler_start_list
    stop_list,          \* self._scheduler_stop_list
    resize_list,        \* self._schedule_resize_list
    decided,            \* the loop locals of the instances decided in this scope
    yields,             \* what the driver yielded for the batches of this scope
    started_instances,  \* _process_account: started_instances
    stopped_instances,  \* _process_account: stopped_instances
    resized_instances,  \* _process_account: resized_instances
    response,           \* run: response
    usage_metrics,      \* self._usage_metrics
    walked              \* the scopes walked in this run, with the ids observed in each

vars == << handler, tags, window, desired, cfg, script, run_no, pc, table, state_info, loaded, gen, accounts_done, notices, notice_errors, account,
           region_idx, state_loaded, instances, start_list, stop_list, resize_list,
           decided, yields, started_instances, stopped_instances, resized_instances,
           response, usage_metrics, walked >>

\* no request handler and no tag template are followed
NoHandler == [ at |-> "none" ]
NoTags == [ at |-> "none" ]
NoWindow == [ at |-> "none" ]
NoDesired == [ at |-> "none" ]

(***************************************************************************)
(* Helpers of the engine                                                   *)
(***************************************************************************)
IdsOf(list) == {list[k].id : k \in 1..Len(list)}
ResizeIdsOf(list) == {list[k][1].id : k \in 1..Len(list)}

\* the regions of the configuration without the fall back on the home region
regions_ConfiguredOnly(c) == c.regions

\* self._regions
regions(c) == IF Len(c.regions) > 0 THEN c.regions ELSE <<HomeRegion>>

\* the role assumed for a remote account
RoleOf(acct) == <<"role", acct>>
NoRole == <<"role", None>>
NoAccount == [name |-> None, role |-> NoRole]

\* the scope being processed
CurrentScope == <<account.name, regions(cfg)[region_idx]>>

\* the records the driver's yields leave: each yielded (id, state) is set
ApplyYields(states, list, result) ==
    [id \in Ids |-> IF id \in IdsOf(list) /\ result[id] # None
                    THEN result[id] ELSE states[id]]

\* the entries of the result map built from a batch
\* an output list that holds the first instance of the batch only
ResultEntries_FirstOnly(list) ==
    [k \in 1..(IF Len(list) > 0 THEN 1 ELSE 0) |-> [id |-> list[k].id, schedule |-> list[k].schedule_name]]

ResultEntries(list) ==
    [k \in 1..Len(list) |-> [id |-> list[k].id, schedule |-> list[k].schedule_name]]
ResizedEntries(list) ==
    [k \in 1..Len(list) |-> [id |-> list[k][1].id, schedule |-> list[k][1].schedule_name,
                             old |-> list[k][1].instancetype, new |-> list[k][2]]]

\* _collect_usage_metrics
Count(m, k) == Put(m, k, Get(m, k, 0) + 1)
\* the counted type of a started instance taken from the instance alone
StartedType_CurrentType(i, rlist) == i.instancetype

StartedType(i, rlist) ==
    IF i.id \in ResizeIdsOf(rlist)
    THEN rlist[CHOOSE k \in 1..Len(rlist) :
                 /\ rlist[k][1].id = i.id
                 /\ \A j \in 1..(k - 1) : rlist[j][1].id # i.id][2]
    ELSE i.instancetype
RECURSIVE CountStarted(_, _, _)
CountStarted(m, list, rlist) ==
    IF list = <<>> THEN m
    ELSE CountStarted(Count(m, StartedType(Head(list), rlist)), Tail(list), rlist)
RECURSIVE CountStopped(_, _)
CountStopped(m, list) ==
    IF list = <<>> THEN m
    ELSE CountStopped(Count(m, Head(list).instancetype), Tail(list))
RECURSIVE CountResized(_, _)
CountResized(m, rlist) ==
    IF rlist = <<>> THEN m
    ELSE CountResized(Count(m, <<Head(rlist)[1].instancetype, Head(rlist)[2]>>), Tail(rlist))
\* the counting that starts from empty counters in every scope
collect_usage_metrics_PerScope(m, slist, plist, rlist) ==
    [ Started |-> CountStarted(EmptyMap, slist, rlist),
      Stopped |-> CountStopped(EmptyMap, plist),
      Resized |-> CountResized(EmptyMap, rlist) ]

collect_usage_metrics(m, slist, plist, rlist) ==
    [ Started |-> CountStarted(m.Started, slist, rlist),
      Stopped |-> CountStopped(m.Stopped, plist),
      Resized |-> CountResized(m.Resized, rlist) ]
NoUsage == [Started |-> EmptyMap, Stopped |-> EmptyMap, Resized |-> EmptyMap]
NoYields == [start |-> EmptyMap, stop |-> EmptyMap, calls |-> <<>>]

(***************************************************************************)
(* Init: the state before the handler runs the engine                      *)
(***************************************************************************)
InitWith(c, scr) ==
    /\ handler = NoHandler
    /\ tags = NoTags
    /\ window = NoWindow
    /\ desired = NoDesired
    /\ cfg = c
    /\ script = scr
    /\ run_no = 0
    /\ pc = "idle"
    /\ table = [s \in Scopes |-> NoRecords]
    /\ state_info = NoRecords
    /\ loaded = NoScope
    /\ gen = 0
    /\ accounts_done = <<>>
    /\ notices = <<>>
    /\ notice_errors = <<>>
    /\ account = NoAccount
    /\ region_idx = 0
    /\ state_loaded = FALSE
    /\ instances = <<>>
    /\ start_list = <<>>
    /\ stop_list = <<>>
    /\ resize_list = <<>>
    /\ decided = <<>>
    /\ yields = NoYields
    /\ started_instances = EmptyMap
    /\ stopped_instances = EmptyMap
    /\ resized_instances = EmptyMap
    /\ response = EmptyMap
    /\ usage_metrics = NoUsage
    /\ walked = EmptyMap

\* every run draws its inputs afresh
Init == InitWith(BaseConfiguration, NoScript)

(***************************************************************************)
(* run: a new InstanceScheduler is built and run by the request handler    *)
(***************************************************************************)
RunStart ==
    /\ pc \in {"idle", "raised"}
    /\ script.on => run_no < MaxRuns
    /\ run_no' = IF script.on THEN run_no + 1 ELSE run_no
    /\ pc' = "accounts"
    /\ state_info' = NoRecords
    /\ loaded' = NoScope
    /\ gen' = 0
    /\ accounts_done' = <<>>
    /\ notices' = <<>>
    /\ notice_errors' = <<>>
    /\ account' = NoAccount
    /\ region_idx' = 0
    /\ state_loaded' = FALSE
    /\ instances' = <<>>
    /\ start_list' = <<>>
    /\ stop_list' = <<>>
    /\ resize_list' = <<>>
    /\ decided' = <<>>
    /\ yields' = NoYields
    /\ started_instances' = EmptyMap
    /\ stopped_instances' = EmptyMap
    /\ resized_instances' = EmptyMap
    /\ response' = EmptyMap
    /\ usage_metrics' = NoUsage
    /\ walked' = EmptyMap
    /\ UNCHANGED <<handler, tags, window, desired, cfg, script, table>>

(***************************************************************************)
(* _accounts: the account generator, resumed by the loop of run            *)
(***************************************************************************)
\* the position in remote_account_ids the generator resumes at
RemoteIdx == IF gen = 0 THEN 1 ELSE gen
\* the loop over the remote accounts entered before the hosting account was yielded
AtRemote_BeforeLambda ==
    /\ pc = "accounts"
    /\ RemoteIdx <= Len(cfg.remote_account_ids)

AtRemote ==
    /\ pc = "accounts"
    /\ gen > 0 \/ ~cfg.schedule_lambda_account
    /\ RemoteIdx <= Len(cfg.remote_account_ids)

\* the yielded account enters _process_account
BeginProcessAccount(acct) ==
    /\ account' = acct
    /\ started_instances' = EmptyMap
    /\ stopped_instances' = EmptyMap
    /\ resized_instances' = EmptyMap
    /\ region_idx' = 1
    /\ pc' = "region"

SkipAccount ==
    /\ gen' = RemoteIdx + 1
    /\ UNCHANGED <<handler, tags, window, desired, cfg, script, run_no, pc, table, state_info, loaded, accounts_done, account, region_idx,
                   state_loaded, instances, start_list, stop_list, resize_list, decided,
                   yields, started_instances, stopped_instances, resized_instances,
                   response, usage_metrics, walked>>

YieldLambdaAccount ==
    /\ pc = "accounts"
    /\ gen = 0
    /\ cfg.schedule_lambda_account
    /\ accounts_done' = Append(accounts_done, LambdaAccount)
    /\ gen' = 1
    /\ BeginProcessAccount([name |-> LambdaAccount, role |-> NoRole])
    /\ UNCHANGED <<handler, tags, window, desired, cfg, script, run_no, table, state_info, loaded, notices, notice_errors, state_loaded, instances,
                   start_list, stop_list, resize_list, decided, yields, response,
                   usage_metrics, walked>>

SkipDuplicateAccount ==
    /\ AtRemote
    /\ cfg.remote_account_ids[RemoteIdx] \in Range(accounts_done)
    /\ SkipAccount
    /\ UNCHANGED <<notices, notice_errors>>

YieldRemoteAccount ==
    /\ AtRemote
    /\ script.on => script.assume[cfg.remote_account_ids[RemoteIdx]] = "ok"
    /\ cfg.remote_account_ids[RemoteIdx] \notin Range(accounts_done)
    /\ gen' = RemoteIdx + 1
    /\ BeginProcessAccount([name |-> cfg.remote_account_ids[RemoteIdx],
                            role |-> RoleOf(cfg.remote_account_ids[RemoteIdx])])
    /\ UNCHANGED <<handler, tags, window, desired, cfg, script, run_no, table, state_info, loaded, accounts_done, notices, notice_errors, state_loaded,
                   instances, start_list, stop_list, resize_list, decided, yields,
                   response, usage_metrics, walked>>

\* assume_role fails with AccessDenied: the deconfigure notice is sent
AssumeRoleAccessDenied ==
    /\ AtRemote
    /\ script.on => script.assume[cfg.remote_account_ids[RemoteIdx]] = "AccessDenied"
    /\ cfg.remote_account_ids[RemoteIdx] \notin Range(accounts_done)
    /\ notices' = Append(notices, cfg.remote_account_ids[RemoteIdx])
    /\ UNCHANGED notice_errors
    /\ SkipAccount

\* the notice whose failing invoke is not caught: the run is over
NoticeInvokeRaises_Uncaught ==
    /\ AtRemote
    /\ script.on => script.assume[cfg.remote_account_ids[RemoteIdx]] = "AccessDeniedNoInvoke"
    /\ cfg.remote_account_ids[RemoteIdx] \notin Range(accounts_done)
    /\ pc' = "raised"
    /\ UNCHANGED <<handler, tags, window, desired, cfg, script, run_no, table, state_info, loaded, gen, accounts_done, notices, notice_errors, account,
                   region_idx, state_loaded, instances, start_list, stop_list, resize_list,
                   decided, yields, started_instances, stopped_instances,
                   resized_instances, response, usage_metrics, walked>>

\* assume_role fails with AccessDenied and the lambda invoke of the deconfigure notice
\* raises: remove_account_from_config logs the error and returns, and the account is
\* skipped
NoticeInvokeRaises ==
    /\ AtRemote
    /\ script.on => script.assume[cfg.remote_account_ids[RemoteIdx]] = "AccessDeniedNoInvoke"
    /\ cfg.remote_account_ids[RemoteIdx] \notin Range(accounts_done)
    /\ notices' = Append(notices, cfg.remote_account_ids[RemoteIdx])
    /\ notice_errors' = Append(notice_errors, cfg.remote_account_ids[RemoteIdx])
    /\ SkipAccount

\* the handling of another error code that sends the deconfigure notice as well
AssumeRoleOtherError_SendsNotice ==
    /\ AtRemote
    /\ script.on => script.assume[cfg.remote_account_ids[RemoteIdx]] = "Other"
    /\ cfg.remote_account_ids[RemoteIdx] \notin Range(accounts_done)
    /\ notices' = Append(notices, cfg.remote_account_ids[RemoteIdx])
    /\ UNCHANGED notice_errors
    /\ SkipAccount

\* assume_role fails with a ClientError of another error code: logged, no notice
AssumeRoleOtherError ==
    /\ AtRemote
    /\ script.on => script.assume[cfg.remote_account_ids[RemoteIdx]] = "Other"
    /\ cfg.remote_account_ids[RemoteIdx] \notin Range(accounts_done)
    /\ SkipAccount
    /\ UNCHANGED <<notices, notice_errors>>

\* assume_role raises an exception that is not a ClientError: the except clause does not
\* catch it and nothing above the generator does, so the run is over
AssumeRoleRaises ==
    /\ AtRemote
    /\ script.on => script.assume[cfg.remote_account_ids[RemoteIdx]] = "Raises"
    /\ cfg.remote_account_ids[RemoteIdx] \notin Range(accounts_done)
    /\ pc' = "raised"
    /\ UNCHANGED <<handler, tags, window, desired, cfg, script, run_no, table, state_info, loaded, gen, accounts_done, notices, notice_errors, account,
                   region_idx, state_loaded, instances, start_list, stop_list, resize_list,
                   decided, yields, started_instances, stopped_instances,
                   resized_instances, response, usage_metrics, walked>>

\* the generator is exhausted: run returns the response
RunReturn ==
    /\ pc = "accounts"
    /\ gen > 0 \/ ~cfg.schedule_lambda_account
    /\ RemoteIdx > Len(cfg.remote_account_ids)
    /\ pc' = "idle"
    /\ UNCHANGED <<handler, tags, window, desired, cfg, script, run_no, table, state_info, loaded, gen, accounts_done, notices, notice_errors, account,
                   region_idx, state_loaded, instances, start_list, stop_list, resize_list,
                   decided, yields, started_instances, stopped_instances,
                   resized_instances, response, usage_metrics, walked>>

(***************************************************************************)
(* _process_account: the loop over the regions                             *)
(***************************************************************************)
\* the next region: the batches are cleared
RegionStart ==
    /\ pc = "region"
    /\ region_idx <= Len(regions(cfg))
    /\ state_loaded' = FALSE
    /\ instances' = <<>>
    /\ start_list' = <<>>
    /\ stop_list' = <<>>
    /\ resize_list' = <<>>
    /\ decided' = <<>>
    /\ yields' = NoYields
    /\ pc' = "instances"
    /\ UNCHANGED <<handler, tags, window, desired, cfg, script, run_no, table, state_info, loaded, gen, accounts_done, notices, notice_errors, account,
                   region_idx, started_instances, stopped_instances, resized_instances,
                   response, usage_metrics, walked>>

\* the instances the driver can yield next: it yields each id once, in the order of IdSeq
IdsIn(scope) == IF scope[1] = LambdaAccount THEN Ids ELSE {IdSeq[2]}
NextIds == {id \in IdsIn(CurrentScope) :
              \A k \in 1..Len(instances) : IdIndex(instances[k].id) < IdIndex(id)}

\* the in-memory records the loop body works on: loaded when the first instance is yielded
StatesAtInstance == IF state_loaded THEN state_info ELSE Load(table, CurrentScope)

\* the events the script allows next: all of them when the runs follow no script
Scripted(e) ==
    script.on =>
        /\ Len(instances) < Len(script.obs[CurrentScope])
        /\ script.obs[CurrentScope][Len(instances) + 1] = e

\* the loop body up to the schedule lookup, and what it leaves to the rest
ObservePrologue(instance) ==
    /\ instance.id \in NextIds
    /\ state_loaded' = TRUE
    /\ loaded' = IF state_loaded THEN loaded ELSE CurrentScope
    /\ instances' = Append(instances, instance)
    /\ UNCHANGED <<handler, tags, window, desired, cfg, script, run_no, pc, table, gen, accounts_done, notices, notice_errors, account,
                   region_idx, yields, started_instances, stopped_instances,
                   resized_instances, response, usage_metrics, walked>>

\* the skip of a terminated instance that leaves its record in place
ObserveTerminated_KeepsRecord ==
    /\ pc = "instances"
    /\ \E id \in NextIds : \E e \in ObsEvents(id) :
        /\ e.kind = "terminated"
        /\ Scripted(e)
        /\ ObservePrologue(e.instance)
        /\ state_info' = StatesAtInstance
        /\ UNCHANGED <<start_list, stop_list, resize_list, decided>>

\* the driver yields a terminated instance: its record is deleted
ObserveTerminated ==
    /\ pc = "instances"
    /\ \E id \in NextIds : \E e \in ObsEvents(id) :
        LET st == [states |-> StatesAtInstance, start |-> start_list,
                   stop |-> stop_list, resize |-> resize_list]
        IN  /\ e.kind = "terminated"
            /\ Scripted(e)
            /\ ObservePrologue(e.instance)
            /\ state_info' = delete_instance_state(st, id).states
            /\ UNCHANGED <<start_list, stop_list, resize_list, decided>>

\* the skip of an instance without a configured schedule that drops its record
ObserveUnknownSchedule_DropsRecord ==
    /\ pc = "instances"
    /\ \E id \in NextIds : \E e \in ObsEvents(id) :
        LET st == [states |-> StatesAtInstance, start |-> start_list,
                   stop |-> stop_list, resize |-> resize_list]
        IN  /\ e.kind = "live"
            /\ ~has_schedule(e.instance.schedule_name)
            /\ Scripted(e)
            /\ ObservePrologue(e.instance)
            /\ state_info' = delete_instance_state(st, id).states
            /\ UNCHANGED <<start_list, stop_list, resize_list, decided>>

\* the driver yields an instance whose schedule name is not configured: it is skipped
ObserveUnknownSchedule ==
    /\ pc = "instances"
    /\ \E id \in NextIds : \E e \in ObsEvents(id) :
        /\ e.kind = "live"
        /\ ~has_schedule(e.instance.schedule_name)
        /\ Scripted(e)
        /\ ObservePrologue(e.instance)
        /\ state_info' = StatesAtInstance
        /\ UNCHANGED <<start_list, stop_list, resize_list, decided>>

\* the driver yields an instance with a configured schedule: the state machine decides
ObserveAndDecide ==
    /\ pc = "instances"
    /\ \E id \in NextIds : \E e \in ObsEvents(id) :
        LET instance == e.instance
            last_desired_state == get_instance_state(StatesAtInstance, id)
            st == [states |-> StatesAtInstance, start |-> start_list,
                   stop |-> stop_list, resize |-> resize_list]
            new == DecideInstance(st, instance, Schedules[instance.schedule_name],
                                  e.desired_state, e.desired_type, last_desired_state,
                                  e.resize_ok)
        IN  /\ e.kind = "live"
            /\ has_schedule(instance.schedule_name)
            /\ Scripted(e)
            /\ ObservePrologue(instance)
            /\ state_info' = new.states
            /\ start_list' = new.start
            /\ stop_list' = new.stop
            /\ resize_list' = new.resize
            /\ decided' = Append(decided,
                                 [ id |-> id,
                                   desired_state |-> e.desired_state,
                                   desired_type |-> e.desired_type,
                                   last_desired_state |-> last_desired_state,
                                   resize_failed |->
                                       /\ ~e.resize_ok
                                       /\ ResizeCalled(instance,
                                                       Schedules[instance.schedule_name],
                                                       e.desired_state, e.desired_type,
                                                       last_desired_state) ])

\* the driver's listing is exhausted
EndInstances ==
    /\ pc = "instances"
    /\ script.on => Len(instances) = Len(script.obs[CurrentScope])
    /\ pc' = "commit"
    /\ UNCHANGED <<handler, tags, window, desired, cfg, script, run_no, table, state_info, loaded, gen, accounts_done, notices, notice_errors, account,
                   region_idx, state_loaded, instances, start_list, stop_list, resize_list,
                   decided, yields, started_instances, stopped_instances,
                   resized_instances, response, usage_metrics, walked>>

(***************************************************************************)
(* _start_and_stop_instances                                               *)
(***************************************************************************)
\* the batches are not empty and the script has the driver raise on them
ScriptRaises == script.raises /\ (Len(start_list) > 0 \/ Len(stop_list) > 0)

\* the batch calls with the stop batch handed over before the start batch
DriverCalls_StopFirst(start, stop) ==
    (IF Len(stop) > 0 THEN <<"stop_instances">> ELSE <<>>)
        \o (IF Len(start) > 0 THEN <<"start_instances">> ELSE <<>>)

\* the driver's batch calls of the scope, in the order they are made
DriverCalls(start, stop) ==
    (IF Len(start) > 0 THEN <<"start_instances">> ELSE <<>>)
        \o (IF Len(stop) > 0 THEN <<"stop_instances">> ELSE <<>>)

StartAndStop ==
    /\ pc = "commit"
    /\ script.on => ~ScriptRaises
    /\ \E started \in [IdsOf(start_list) -> DriverResults],
          stopped \in [IdsOf(stop_list) -> DriverResults] :
        /\ script.on => /\ \A id \in IdsOf(start_list) : started[id] = script.result[id]
                        /\ \A id \in IdsOf(stop_list) : stopped[id] = script.result[id]
        /\ state_info' = ApplyYields(ApplyYields(state_info, start_list, started),
                                     stop_list, stopped)
        /\ yields' = [start |-> started, stop |-> stopped,
                      calls |-> DriverCalls(start_list, stop_list)]
        /\ pc' = "save"
        /\ UNCHANGED <<handler, tags, window, desired, cfg, script, run_no, table, loaded, gen, accounts_done, notices, notice_errors, account, region_idx,
                       state_loaded, instances, start_list, stop_list, resize_list,
                       decided, started_instances, stopped_instances, resized_instances,
                       response, usage_metrics, walked>>

(***************************************************************************)
(* _process_account: cleanup, save and the output of the region            *)
(***************************************************************************)
CleanupAndSave ==
    /\ pc = "save"
    /\ state_info' = Cleanup(state_info, IdsOf(instances))
    /\ table' = Save(table, loaded, state_info')
    /\ started_instances' =
         IF Len(start_list) > 0
         THEN Put(started_instances, regions(cfg)[region_idx], ResultEntries(start_list))
         ELSE started_instances
    /\ stopped_instances' =
         IF Len(stop_list) > 0
         THEN Put(stopped_instances, regions(cfg)[region_idx], ResultEntries(stop_list))
         ELSE stopped_instances
    /\ resized_instances' =
         IF Len(resize_list) > 0
         THEN Put(resized_instances, regions(cfg)[region_idx], ResizedEntries(resize_list))
         ELSE resized_instances
    /\ usage_metrics' =
         IF cfg.send_metrics
         THEN collect_usage_metrics(usage_metrics, start_list, stop_list, resize_list)
         ELSE usage_metrics
    /\ walked' = Put(walked, CurrentScope,
                      [ observed |-> IdsOf(instances),
                        live |-> {instances[k].id : k \in {j \in 1..Len(instances) :
                                                             ~instances[j].is_terminated}} ])
    /\ region_idx' = region_idx + 1
    /\ pc' = "region"
    /\ UNCHANGED <<handler, tags, window, desired, cfg, script, run_no, loaded, gen, accounts_done, notices, notice_errors, account, state_loaded,
                   instances, start_list, stop_list, resize_list, decided, yields, response>>

\* the driver's listing, start_instances or stop_instances, or the store's load or save
\* raises: nothing in _process_account, run or the request handler catches it, so the run
\* is over; the locals of _process_account are gone, the account and the region tell
\* where the run was
Raise ==
    /\ pc \in {"instances", "commit", "save"}
    /\ script.on => (pc = "commit" /\ ScriptRaises)
    /\ pc' = "raised"
    /\ state_loaded' = FALSE
    /\ instances' = <<>>
    /\ decided' = <<>>
    /\ yields' = NoYields
    /\ started_instances' = EmptyMap
    /\ stopped_instances' = EmptyMap
    /\ resized_instances' = EmptyMap
    /\ UNCHANGED <<handler, tags, window, desired, cfg, script, run_no, table, state_info, loaded, gen, accounts_done, notices, notice_errors,
                   account, region_idx, start_list, stop_list, resize_list, response,
                   usage_metrics, walked>>

\* the regions are exhausted: _process_account returns its result to run and its locals
\* are gone
AccountDone ==
    /\ pc = "region"
    /\ region_idx > Len(regions(cfg))
    /\ response' = Put(response, account.name,
                       [ started |-> started_instances,
                         stopped |-> stopped_instances,
                         resized |-> IF cfg.service_allow_resize
                                     THEN resized_instances ELSE EmptyMap,
                         has_resized |-> cfg.service_allow_resize ])
    /\ region_idx' = 0
    /\ state_loaded' = FALSE
    /\ instances' = <<>>
    /\ decided' = <<>>
    /\ yields' = NoYields
    /\ started_instances' = EmptyMap
    /\ stopped_instances' = EmptyMap
    /\ resized_instances' = EmptyMap
    /\ pc' = "accounts"
    /\ UNCHANGED <<handler, tags, window, desired, cfg, script, run_no, table, state_info, loaded, gen, accounts_done, notices, notice_errors,
                   account, start_list, stop_list, resize_list, usage_metrics, walked>>

Next ==
    \/ RunStart
    \/ YieldLambdaAccount
    \/ SkipDuplicateAccount
    \/ YieldRemoteAccount
    \/ AssumeRoleAccessDenied
    \/ NoticeInvokeRaises
    \/ AssumeRoleOtherError
    \/ AssumeRoleRaises
    \/ RunReturn
    \/ RegionStart
    \/ ObserveTerminated
    \/ ObserveUnknownSchedule
    \/ ObserveAndDecide
    \/ EndInstances
    \/ StartAndStop
    \/ CleanupAndSave
    \/ Raise
    \/ AccountDone

Spec == Init /\ [][Next]_vars

(***************************************************************************)
(* Runs in succession with unchanged inputs: every run is given the same   *)
(* assume-role outcome, the same listing of the hosting account's region   *)
(* and the same driver results, starting from an empty state table.        *)
(***************************************************************************)
ScriptScope == <<LambdaAccount, "r1">>
ScriptedListings ==
    {<<>>}
    \cup {<<e>> : e \in ObsEvents(IdSeq[1]) \cup ObsEvents(IdSeq[2])}
    \cup {<<e, f>> : e \in ObsEvents(IdSeq[1]),
                      f \in {g \in ObsEvents(IdSeq[2]) :
                                /\ g.kind = "live"
                                /\ g.instance.is_running <=> g.desired_state = STATE_STOPPED}}
Scripts ==
    { [ on |-> TRUE, assume |-> [acct \in AllAccounts |-> a],
        obs |-> [s \in Scopes |-> IF s = ScriptScope THEN l ELSE <<>>],
        result |-> [id \in Ids |-> r], raises |-> FALSE ] :
        a \in AssumeOutcomes, l \in ScriptedListings, r \in DriverResults }
    \cup
    { [ on |-> TRUE, assume |-> [acct \in AllAccounts |-> "ok"],
        obs |-> [s \in Scopes |-> IF s = ScriptScope THEN l ELSE <<>>],
        result |-> [id \in Ids |-> None], raises |-> TRUE ] :
        l \in ScriptedListings }

InitTwice == \E scr \in Scripts : InitWith(BaseConfiguration, scr)

SpecTwice == InitTwice /\ [][Next]_vars

(***************************************************************************)
(* Runs under every configuration.  Each run is given the same inputs: an  *)
(* assume-role outcome for every remote account, a listing for the regions *)
(* of the hosting account and one for the regions of the remote accounts,  *)
(* a driver that yields running for every batched instance or raises.      *)
(***************************************************************************)
StartResizeEvent ==
    ObsEvent("live", Instance(IdSeq[1], FALSE, FALSE, "plain", "t1", TRUE),
             STATE_RUNNING, "t2", TRUE)
StopNewEvent ==
    ObsEvent("live", Instance(IdSeq[1], TRUE, FALSE, "enfretain", "t1", TRUE),
             STATE_STOPPED, None, TRUE)
StartEvent ==
    ObsEvent("live", Instance(IdSeq[2], FALSE, FALSE, "plain", "t1", TRUE),
             STATE_RUNNING, None, TRUE)
UnknownEvent ==
    ObsEvent("live", Instance(IdSeq[1], TRUE, FALSE, "missing", "t1", FALSE), None, None, TRUE)
TerminatedEvent ==
    ObsEvent("terminated", Instance(IdSeq[2], FALSE, TRUE, "plain", "t1", FALSE), None, None, TRUE)
FirstRegionListings ==
    { <<>>, <<StartResizeEvent>>, <<StopNewEvent, StartEvent>>, <<StartResizeEvent, StartEvent>>,
      <<UnknownEvent, TerminatedEvent>> }
NextRegionListings == {<<>>, <<StartEvent>>, <<StartResizeEvent>>}
RemoteListings == {<<>>, <<StartEvent>>}

\* the remote accounts a role is assumed for: not the hosting account once it was yielded
AssumedAccounts(c) ==
    Range(c.remote_account_ids) \ (IF c.schedule_lambda_account THEN {LambdaAccount} ELSE {})
AssumeChoices(c) ==
    {f \in [AllAccounts -> AssumeOutcomes] : \A a \in AllAccounts \ AssumedAccounts(c) : f[a] = "ok"}
ConfigListings(c, first, next, remote) ==
    [s \in Scopes |->
        IF s[2] \notin Range(regions(c)) THEN <<>>
        ELSE IF s[1] # LambdaAccount THEN remote
        ELSE IF s[2] = regions(c)[1] THEN first
        ELSE next]
ConfigScripts(c) ==
    { [ on |-> TRUE, assume |-> f, obs |-> ConfigListings(c, first, next, remote),
        result |-> [id \in Ids |-> STATE_RUNNING], raises |-> r ] :
        f \in AssumeChoices(c), first \in FirstRegionListings,
        next \in IF Len(regions(c)) > 1 THEN NextRegionListings ELSE {<<>>},
        remote \in RemoteListings,
        r \in BOOLEAN }

InitConfigs == \E c \in Configurations : \E scr \in ConfigScripts(c) : InitWith(c, scr)

SpecConfigs == InitConfigs /\ [][Next]_vars

(***************************************************************************)
(* What the claims speak of                                                *)
(***************************************************************************)
Decisions == {decided[k] : k \in 1..Len(decided)}
InstanceOf(id) == instances[CHOOSE k \in 1..Len(instances) : instances[k].id = id]
ScheduleOf(id) == Schedules[InstanceOf(id).schedule_name]
StartIds == IdsOf(start_list)
StopIds == IdsOf(stop_list)
ResizeIds == ResizeIdsOf(resize_list)

\* the region of the account has just been cleaned up and saved
JustSaved == pc = "region" /\ region_idx > 1
SavedScope == <<account.name, regions(cfg)[region_idx - 1]>>

\* what the driver yielded for a batched instance
YieldedFor(id) ==
    IF id \in DOMAIN yields.start /\ id \notin DOMAIN yields.stop THEN yields.start[id]
    ELSE IF id \in DOMAIN yields.stop THEN yields.stop[id]
    ELSE None

\* the run has returned
Returned == pc = "idle" /\ DOMAIN walked # {}

(***************************************************************************)
(* First-sighting grace                                                    *)
(***************************************************************************)
\* a first-sighted running instance whose desired state is stopped, under a schedule
\* that does not stop new instances
SparedCase(d) ==
    /\ InstanceOf(d.id).is_running
    /\ d.desired_state = STATE_STOPPED
    /\ ~ScheduleOf(d.id).stop_new_instances

\* C1: a running instance with no persisted record whose desired state is stopped and
\* whose schedule has stop_new_instances = false gets the record stopped and is not
\* placed on the stop list, so no stop is issued for it in that cycle
C1_FirstSightingGrace ==
    \A d \in Decisions :
        (d.last_desired_state = STATE_UNKNOWN /\ SparedCase(d))
            => /\ state_info[d.id] = STATE_STOPPED
               /\ d.id \notin StopIds
               /\ d.id \notin DOMAIN yields.stop

C1_Spared ==
    /\ pc = "save"
    /\ \E d \in Decisions : d.last_desired_state = STATE_UNKNOWN /\ SparedCase(d)

\* C2, as claimed: in the cycle after the one that spared it, an instance that is still
\* running with a desired state of stopped is placed on the stop list
C2_StoppedInNextCycle ==
    \A d \in Decisions :
        (run_no = 2 /\ pc = "commit" /\ SparedCase(d) /\ d.last_desired_state = STATE_STOPPED)
            => d.id \in StopIds

\* C2, amended: in the cycle after the one that spared it, the instance is placed on the
\* stop list exactly if its schedule is enforced and its record is still stopped;
\* otherwise it is placed on no list and its record is stopped when the decisions end
C2_StoppedInNextCycleIfEnforced ==
    \A d \in Decisions :
        (run_no = 2 /\ SparedCase(d))
            => /\ d.last_desired_state \in {STATE_STOPPED, STATE_UNKNOWN}
               /\ d.id \in StopIds <=>
                      (ScheduleOf(d.id).enforced /\ d.last_desired_state = STATE_STOPPED)
               /\ d.id \notin StartIds
               /\ (pc = "commit" /\ d.id \notin StopIds) => state_info[d.id] = STATE_STOPPED

C2_SecondCycleNotEnforced ==
    /\ run_no = 2
    /\ pc = "commit"
    /\ \E d \in Decisions : /\ SparedCase(d)
                            /\ d.last_desired_state = STATE_STOPPED
                            /\ ~ScheduleOf(d.id).enforced
                            /\ d.id \notin StopIds

(***************************************************************************)
(* The persisted records                                                   *)
(***************************************************************************)
\* the instance is on the start or the stop batch of the scope
Batched(id) == id \in StartIds \cup StopIds

\* C3, as claimed: after run returns every observed instance that is not terminated has
\* a persisted record that holds running, stopped or retain_running
C3_RecordOfEveryLiveInstance ==
    Returned =>
        \A s \in DOMAIN walked : \A id \in walked[s].live :
            table[s][id] \in {STATE_RUNNING, STATE_STOPPED, STATE_RETAIN_RUNNING}

\* C3, amended: when the records of a scope are saved, an observed instance that is not
\* terminated and has a configured schedule is without a record only if it had none
\* before and either is running with a desired state of running or was batched and the
\* driver yielded no state for it; its record holds running, stopped or retain_running
\* unless it is the desired state of the cycle, the record it had before or the state
\* the driver yielded for it
C3_RecordWhenSaved ==
    JustSaved =>
        \A d \in Decisions :
            LET rec == table[SavedScope][d.id]
            IN  /\ rec = STATE_UNKNOWN =>
                       /\ d.last_desired_state = STATE_UNKNOWN
                       /\ \/ InstanceOf(d.id).is_running /\ d.desired_state = STATE_RUNNING
                          \/ Batched(d.id) /\ YieldedFor(d.id) = None
                /\ rec \notin {STATE_UNKNOWN, STATE_RUNNING, STATE_STOPPED,
                                STATE_RETAIN_RUNNING} =>
                       rec \in {d.desired_state, d.last_desired_state, YieldedFor(d.id)}

C3_SavedAnyRecord ==
    /\ JustSaved
    /\ \E d \in Decisions : /\ table[SavedScope][d.id] = STATE_ANY
                            /\ d.last_desired_state = STATE_STOPPED

\* C4: after run returns, no scope walked in the cycle holds a record of an instance
\* that was not observed in the scope, a scope without observed instances included
C4_NoRecordOfUnobserved ==
    Returned =>
        \A s \in DOMAIN walked : \A id \in Ids \ walked[s].observed :
            table[s][id] = STATE_UNKNOWN

\* C5: no instance is on both the start list and the stop list of a scope
C5_StartStopDisjoint == StartIds \cap StopIds = {}

C5_BothBatches == pc = "commit" /\ StartIds # {} /\ StopIds # {}

(***************************************************************************)
(* Runs in succession                                                      *)
(***************************************************************************)
\* C6, as claimed: the second of two runs with the same observed instances, schedule
\* results and driver responses produces no starts, no stops and no resizes
C6_SecondRunEmpty ==
    run_no >= 2 => (start_list = <<>> /\ stop_list = <<>> /\ resize_list = <<>>)

\* C6, amended: the second of two such runs places an instance on the start, stop or
\* resize list only if its schedule is enforced or the record the first run left for it
\* differs from its desired state
C6_SecondRunActsOnChangeOnly ==
    (run_no >= 2 /\ (pc \in {"instances", "commit", "save"} \/ JustSaved)) =>
        \A id \in StartIds \cup StopIds \cup ResizeIds :
            \E d \in Decisions :
                /\ d.id = id
                /\ ScheduleOf(id).enforced \/ d.last_desired_state # d.desired_state

C6_SecondRunQuiet ==
    /\ run_no = 2
    /\ pc = "save"
    /\ start_list = <<>> /\ stop_list = <<>> /\ resize_list = <<>>
    /\ \E d \in Decisions : /\ ~InstanceOf(d.id).is_running
                            /\ d.desired_state = STATE_RUNNING
                            /\ d.last_desired_state = STATE_RUNNING
                            /\ ~ScheduleOf(d.id).enforced

(***************************************************************************)
(* Enforced schedules                                                      *)
(***************************************************************************)
\* an instance of an enforced schedule whose live state disagrees with a desired state
\* of running or stopped
EnforcedCase(d) ==
    /\ ScheduleOf(d.id).enforced
    /\ \/ InstanceOf(d.id).is_running /\ d.desired_state = STATE_STOPPED
       \/ ~InstanceOf(d.id).is_running /\ d.desired_state = STATE_RUNNING

\* the instance is on the batch that brings it to its desired state
OnBatchToDesired(d) ==
    IF InstanceOf(d.id).is_running THEN d.id \in StopIds ELSE d.id \in StartIds

\* C7, as claimed: an instance of an enforced schedule whose live state disagrees with
\* a desired state of running or stopped is placed on the start or the stop list in
\* that cycle, whatever its last desired state
C7_EnforcedBatchedAlways ==
    \A d \in Decisions : EnforcedCase(d) => OnBatchToDesired(d)

\* C7, amended: such an instance is placed on the start or the stop list in that cycle
\* unless its last desired state is retain_running or it is a first-sighted running
\* instance spared under stop_new_instances = false
C7_EnforcedBatched ==
    \A d \in Decisions :
        ( /\ EnforcedCase(d)
          /\ d.last_desired_state # STATE_RETAIN_RUNNING
          /\ ~(d.last_desired_state = STATE_UNKNOWN /\ SparedCase(d)) )
            => OnBatchToDesired(d)

C7_EnforcedStartOfStopped ==
    /\ pc = "commit"
    /\ \E d \in Decisions : /\ EnforcedCase(d)
                            /\ d.last_desired_state = STATE_RUNNING
                            /\ ~InstanceOf(d.id).is_running
                            /\ d.id \in StartIds

(***************************************************************************)
(* retain_running                                                          *)
(***************************************************************************)
\* C8: the decision step leaves a record of retain_running that was not there before
\* only if the previous record was stopped, the instance is running and its schedule
\* has retain_running set; never for an instance without a previous record
C8_RetainRunningOnlyFromStopped ==
    \A d \in Decisions :
        (state_info[d.id] = STATE_RETAIN_RUNNING /\ d.last_desired_state # STATE_RETAIN_RUNNING)
            => /\ d.last_desired_state = STATE_STOPPED
               /\ InstanceOf(d.id).is_running
               /\ ScheduleOf(d.id).retain_running

C8_RetainRunningWritten ==
    /\ pc = "commit"
    /\ \E d \in Decisions : /\ state_info[d.id] = STATE_RETAIN_RUNNING
                            /\ d.last_desired_state = STATE_STOPPED

\* scenario S3: a schedule that is not enforced and has retain_running set, a running
\* instance whose previous record and whose desired state are stopped
RetainCase(d) ==
    /\ ~ScheduleOf(d.id).enforced
    /\ ScheduleOf(d.id).retain_running
    /\ InstanceOf(d.id).is_running
    /\ d.last_desired_state = STATE_STOPPED
    /\ d.desired_state = STATE_STOPPED

\* C9, as claimed: in scenario S3 the instance is not stopped and its record ends the
\* cycle as retain_running
C9_RecordEndsRetainRunning ==
    (JustSaved /\ run_no = 2) =>
        \A d \in Decisions :
            RetainCase(d) => /\ d.id \notin StopIds
                             /\ table[SavedScope][d.id] = STATE_RETAIN_RUNNING

\* C9, amended: in scenario S3 the instance is not stopped and its record ends the cycle
\* as stopped; in the next cycle, the desired state still stopped, again no action is
\* taken and the record is still stopped
C9_RecordStaysStopped ==
    (JustSaved /\ run_no >= 2) =>
        \A d \in Decisions :
            RetainCase(d) => /\ d.id \notin StopIds \cup StartIds \cup ResizeIds
                             /\ table[SavedScope][d.id] = STATE_STOPPED

C9_ThirdCycle ==
    /\ JustSaved
    /\ run_no = 3
    /\ \E d \in Decisions : RetainCase(d)

(***************************************************************************)
(* Resize                                                                  *)
(***************************************************************************)
\* C10: an instance whose resize failed is added neither to the start list nor to the
\* resize list of that cycle
C10_FailedResizeNotStarted ==
    \A d \in Decisions : d.resize_failed => (d.id \notin StartIds /\ d.id \notin ResizeIds)

(***************************************************************************)
(* Resize on start                                                         *)
(***************************************************************************)
\* the new-state transition is applied to an instance that is not running, with a desired
\* state of running and a desired type that differs from its type, the instance allows
\* the resize and the driver's resize_instance returns
ResizeCase(d) ==
    /\ ~InstanceOf(d.id).is_running
    /\ d.desired_state = STATE_RUNNING
    /\ d.desired_type \notin {None, InstanceOf(d.id).instancetype}
    /\ InstanceOf(d.id).allow_resize
    /\ ~d.resize_failed
    /\ d.last_desired_state # STATE_RETAIN_RUNNING
    /\ \/ d.last_desired_state = STATE_UNKNOWN
       \/ ScheduleOf(d.id).enforced
       \/ d.last_desired_state # d.desired_state

\* the scope ends with one resize entry (instance, new type) and one start entry for it
ResizedAndStarted(d) ==
    /\ Cardinality({k \in DOMAIN resize_list : resize_list[k][1].id = d.id}) = 1
    /\ \E k \in DOMAIN resize_list : resize_list[k] = <<InstanceOf(d.id), d.desired_type>>
    /\ Cardinality({k \in DOMAIN start_list : start_list[k].id = d.id}) = 1

\* the counters of the scope's output count the start under the new type and the resize
\* under the change of type, once each
CountedOnce(d) ==
    LET old == InstanceOf(d.id).instancetype
        new == d.desired_type
    IN  /\ Get(usage_metrics'.Started, new, 0) = Get(usage_metrics.Started, new, 0) + 1
        /\ Get(usage_metrics'.Resized, <<old, new>>, 0)
              = Get(usage_metrics.Resized, <<old, new>>, 0) + 1

\* the step that ends a scope
EndsScope == pc = "save" /\ pc' = "region"

C12_OneNoticeAndNoKey ==
    \A a \in Range(notices) :
        /\ Cardinality({k \in DOMAIN notices : notices[k] = a}) = 1
        /\ a \notin DOMAIN response

\* C13: an account id is yielded at most once in a run: no account is yielded that was
\* processed before in the run
C13_YieldedAtMostOnce ==
    [][(pc = "accounts" /\ pc' = "region") => account'.name \notin DOMAIN response]_vars

(***************************************************************************)
(* Instances without a configured schedule                                 *)
(***************************************************************************)
\* the observed instances of the scope that are not terminated and whose schedule name is
\* not configured
SkippedIds ==
    {instances[k].id : k \in {j \in DOMAIN instances :
                                 /\ ~instances[j].is_terminated
                                 /\ instances[j].schedule_name \notin ScheduleNames}}

\* C14: an instance whose schedule is not configured is placed on no list, and the
\* record of its scope is after the cleanup and save what it was before the cycle
C14_UnknownScheduleSkipped ==
    [][EndsScope => \A id \in SkippedIds :
                       /\ id \notin StartIds \cup StopIds \cup ResizeIds
                       /\ table'[CurrentScope][id] = table[CurrentScope][id]]_vars

C14_RecordSurvives ==
    /\ JustSaved
    /\ \E id \in SkippedIds : table[SavedScope][id] = STATE_RUNNING

(***************************************************************************)
(* Errors raised while a scope is processed                                *)
(***************************************************************************)
\* C15: an error raised while a scope is processed leaves no region of the account and
\* no configured account unprocessed
C15_ErrorLeavesNoScopeUnprocessed ==
    pc = "raised" => /\ region_idx = Len(regions(cfg))
                     /\ gen > Len(cfg.remote_account_ids)

(***************************************************************************)
(* Order of decisions and driver calls inside a scope                      *)
(***************************************************************************)
\* the decision of the instance called the driver's resize_instance: the call either
\* raised or put the instance on the resize list
ResizeCallMade(d) == d.resize_failed \/ d.id \in ResizeIds

\* C16: no instance of the scope is decided after a mutating driver call, so whenever a
\* decision has been followed by another one the earlier one made no resize_instance call
C16_NoDriverCallBeforeLastDecision ==
    pc \in {"instances", "commit", "save"} =>
        \A k \in 1..(Len(decided) - 1) : ~ResizeCallMade(decided[k])

(***************************************************************************)
(* The result map of _process_account                                      *)
(***************************************************************************)
\* the output map has the region iff the batch is not empty, and then lists the
\* instances of the batch in order
ReflectsBatch(map, r, list, ids, names) ==
    /\ r \in DOMAIN map <=> Len(list) > 0
    /\ Len(list) > 0 =>
          /\ Len(map[r]) = Len(list)
          /\ \A k \in 1..Len(list) : map[r][k].id = ids[k] /\ map[r][k].schedule = names[k]

\* the output map is as it was for every other region
OtherRegionsKept(map_after, map_before, r) ==
    /\ DOMAIN map_after \ {r} = DOMAIN map_before \ {r}
    /\ \A o \in DOMAIN map_before \ {r} : map_after[o] = map_before[o]

\* the output of the region that has just been saved
RegionOutputExact ==
    LET r == regions(cfg)[region_idx]
        resized == [k \in 1..Len(resize_list) |-> resize_list[k][1]]
    IN  /\ ReflectsBatch(started_instances', r, start_list,
                         [k \in 1..Len(start_list) |-> start_list[k].id],
                         [k \in 1..Len(start_list) |-> start_list[k].schedule_name])
        /\ ReflectsBatch(stopped_instances', r, stop_list,
                         [k \in 1..Len(stop_list) |-> stop_list[k].id],
                         [k \in 1..Len(stop_list) |-> stop_list[k].schedule_name])
        /\ ReflectsBatch(resized_instances', r, resize_list,
                         [k \in 1..Len(resized) |-> resized[k].id],
                         [k \in 1..Len(resized) |-> resized[k].schedule_name])
        /\ \A k \in 1..Len(resize_list) :
              /\ resized_instances'[r][k].old = resize_list[k][1].instancetype
              /\ resized_instances'[r][k].new = resize_list[k][2]
        /\ OtherRegionsKept(started_instances', started_instances, r)
        /\ OtherRegionsKept(stopped_instances', stopped_instances, r)
        /\ OtherRegionsKept(resized_instances', resized_instances, r)
        /\ IdsOf(start_list) \cup IdsOf(stop_list) \cup ResizeIds \subseteq IdsOf(instances)

\* _process_account returns
AccountReturns == pc = "region" /\ pc' = "accounts"

\* the map returned for the account is the three output maps, resized under its key iff
\* the service allows resizing
ReturnedMapExact ==
    LET result == response'[account.name]
    IN  /\ result.started = started_instances
        /\ result.stopped = stopped_instances
        /\ result.has_resized <=> cfg.service_allow_resize
        /\ result.has_resized => result.resized = resized_instances

\* a region of the account begins
BeginsRegion == pc = "region" /\ pc' = "instances"

\* C17: the batches are empty when a region begins, the output of a region reflects
\* its batches exactly and leaves the other regions' entries alone, and the returned map
\* is these outputs with the resized key iff the service allows resizing
C17_ResultReflectsBatches ==
    [][/\ BeginsRegion => start_list' = <<>> /\ stop_list' = <<>> /\ resize_list' = <<>>
       /\ EndsScope => RegionOutputExact
       /\ AccountReturns => ReturnedMapExact]_vars

C17_TwoStartsInOneRegionOnly ==
    /\ pc = "accounts"
    /\ \E a \in DOMAIN response :
          /\ Len(regions(cfg)) = 2
          /\ regions(cfg)[1] \in DOMAIN response[a].started
          /\ Len(response[a].started[regions(cfg)[1]]) = 2
          /\ regions(cfg)[2] \notin DOMAIN response[a].started
          /\ response[a].has_resized
          /\ regions(cfg)[1] \in DOMAIN response[a].resized

(***************************************************************************)
(* The regions an account is processed for                                 *)
(***************************************************************************)
\* the regions of the account that have been processed to their save in this run
WalkedRegions(w) == {r \in AllRegions : <<account.name, r>> \in DOMAIN w}

\* _process_account is entered
AccountBegins == pc = "accounts" /\ pc' = "region"

\* C18: the regions of an account are processed from the first position on, one position
\* after the other; with no configured region the only position is the home region, else
\* position k is the k-th configured region, and the account returns after the last one
C18_RegionsProcessedInOrder ==
    [][/\ AccountBegins => region_idx' = 1
       /\ BeginsRegion => region_idx' = region_idx
       /\ EndsScope =>
             /\ region_idx' = region_idx + 1
             /\ DOMAIN walked' = DOMAIN walked \cup
                   {<<account.name, IF cfg.regions = <<>> THEN HomeRegion
                                    ELSE cfg.regions[region_idx]>>}
       /\ AccountReturns =>
             /\ cfg.regions = <<>> => region_idx = 2 /\ WalkedRegions(walked) = {HomeRegion}
             /\ cfg.regions # <<>> => /\ region_idx = Len(cfg.regions) + 1
                                      /\ WalkedRegions(walked) = Range(cfg.regions)]_vars

C18_SecondConfiguredRegion ==
    /\ cfg.regions = <<"r2", "r1">>
    /\ pc = "instances"
    /\ CurrentScope = <<account.name, "r1">>
    /\ WalkedRegions(walked) = {"r2"}

(***************************************************************************)
(* SchedulerRequestHandler.configuration                                   *)
(***************************************************************************)
MaxAccesses == 4

\* the schedules an event or the configuration store can hold
HandlerSchedules == SUBSET {"plain", "enforced", "retain"}

\* the scheduler configuration rebuilt from the dictionary in the event
configuration_from_dict(event) == [ built |-> TRUE, schedules |-> event ]

\* the property that rebuilds the configuration on every read
GetConfiguration_Rebuilds(h) ==
    LET built == configuration_from_dict(h.event)
    IN  [h EXCEPT !.cached = IF built.schedules = {}
                             THEN [built EXCEPT !.schedules = h.store] ELSE built,
                  !.builds = @ + 1,
                  !.reads = IF built.schedules = {} THEN Append(@, h.store) ELSE @,
                  !.accesses = @ + 1]

\* the property configuration: the handler after one read of it
GetConfiguration(h) ==
    IF ~h.cached.built
    THEN LET built == configuration_from_dict(h.event)
         IN  [h EXCEPT !.cached = IF built.schedules = {}
                                  THEN [built EXCEPT !.schedules = h.store] ELSE built,
                       !.builds = @ + 1,
                       !.reads = IF built.schedules = {} THEN Append(@, h.store) ELSE @,
                       !.accesses = @ + 1]
    ELSE [h EXCEPT !.accesses = @ + 1]

\* a handler is constructed for an event: _configuration is None
NewHandler(event, store) ==
    [ at |-> "live", event |-> event, store |-> store,
      cached |-> [ built |-> FALSE, schedules |-> {} ],
      builds |-> 0, reads |-> <<>>, accesses |-> 0 ]

\* the variables of the engine and of the tag templates
not_handler_vars ==
    << tags, window, desired, cfg, script, run_no, pc, table, state_info, loaded, gen, accounts_done, notices, notice_errors,
       account, region_idx, state_loaded, instances, start_list, stop_list, resize_list,
       decided, yields, started_instances, stopped_instances, resized_instances,
       response, usage_metrics, walked >>

\* handle_request or account_names reads self.configuration
ReadConfiguration ==
    /\ handler.at = "live"
    /\ handler.accesses < MaxAccesses
    /\ handler' = GetConfiguration(handler)
    /\ UNCHANGED not_handler_vars

\* the load from the configuration store raises: _configuration is already assigned, the
\* exception leaves the property and handle_request
LoadRaises ==
    /\ handler.at = "live"
    /\ ~handler.cached.built
    /\ handler.event = {}
    /\ handler' = [handler EXCEPT !.at = "raised",
                                  !.cached = configuration_from_dict(handler.event),
                                  !.builds = @ + 1,
                                  !.accesses = @ + 1]
    /\ UNCHANGED not_handler_vars

\* the schedules of the configuration store are changed by an administrator
StoreUpdated ==
    /\ handler.at = "live"
    /\ \E s \in HandlerSchedules \ {handler.store} : handler' = [handler EXCEPT !.store = s]
    /\ UNCHANGED not_handler_vars

InitHandler ==
    /\ \E event \in HandlerSchedules : \E store \in HandlerSchedules :
          handler = NewHandler(event, store)
    /\ tags = NoTags
    /\ window = NoWindow
    /\ desired = NoDesired
    /\ cfg = BaseConfiguration
    /\ script = NoScript
    /\ run_no = 0
    /\ pc = "idle"
    /\ table = [s \in Scopes |-> NoRecords]
    /\ state_info = NoRecords
    /\ loaded = NoScope
    /\ gen = 0
    /\ accounts_done = <<>>
    /\ notices = <<>>
    /\ notice_errors = <<>>
    /\ account = NoAccount
    /\ region_idx = 0
    /\ state_loaded = FALSE
    /\ instances = <<>>
    /\ start_list = <<>>
    /\ stop_list = <<>>
    /\ resize_list = <<>>
    /\ decided = <<>>
    /\ yields = NoYields
    /\ started_instances = EmptyMap
    /\ stopped_instances = EmptyMap
    /\ resized_instances = EmptyMap
    /\ response = EmptyMap
    /\ usage_metrics = NoUsage
    /\ walked = EmptyMap

NextHandler ==
    \/ ReadConfiguration
    \/ LoadRaises
    \/ StoreUpdated

SpecHandler == InitHandler /\ [][NextHandler]_vars

\* C19: the configuration is built at most once per handler; once it has been read, it
\* holds the event's schedules and the store was not read when the event has schedules,
\* and it holds the schedules of the one read of the store when the event has none
C19_SchedulesFromStoreIffEventHasNone ==
    handler.at # "none" =>
        /\ handler.builds <= 1
        /\ handler.at = "live" /\ handler.accesses > 0 =>
              /\ handler.builds = 1
              /\ handler.event # {} => /\ handler.reads = <<>>
                                       /\ handler.cached.schedules = handler.event
              /\ handler.event = {} => /\ Len(handler.reads) = 1
                                       /\ handler.cached.schedules = handler.reads[1]

C19_LoadedOnceThenStoreChanged ==
    /\ handler.at = "live"
    /\ handler.accesses >= 2
    /\ handler.event = {}
    /\ handler.cached.schedules # {}
    /\ handler.store # handler.cached.schedules

(***************************************************************************)
(* SchedulerConfig.build_tags_from_template.  A string is a sequence of    *)
(* symbols: the characters "=", ",", "{" and "}", and words (a run of      *)
(* letters or digits that no input splits, such as a variable name).       *)
(***************************************************************************)
MaxPieces == 4

\* TAG_VAL_STR.format(v): the placeholder of variable v
Placeholder(v) == <<"{", v, "}">>

\* the pieces the tag templates are put together from
TemplatePieces ==
    { <<"k", "=">>, <<",">>, <<"{">>, <<"}">>,
      Placeholder("scheduler"), Placeholder("year"), Placeholder("a") }

RECURSIVE Templates(_)
Templates(n) ==
    IF n = 0 THEN {<<>>}
    ELSE Templates(n - 1) \cup {t \o p : t \in Templates(n - 1), p \in TemplatePieces}

\* the values of the environment variable with the stack name: unset, and two names
StackNames == { <<>>, <<"scheduler">> }

\* the tag_variables argument: None, and one variable whose value names another one
TagVariables == { <<>>, <<[name |-> "a", value |-> Placeholder("scheduler")]>> }

\* str.startswith
StartsWith(str, pat) == Len(str) >= Len(pat) /\ SubSeq(str, 1, Len(pat)) = pat

\* str.replace(pat, val): every occurrence from the left, not overlapping, and what was
\* put in is not looked at again
RECURSIVE Replace(_, _, _)
Replace(str, pat, val) ==
    IF Len(str) < Len(pat) THEN str
    ELSE IF StartsWith(str, pat)
         THEN val \o Replace(SubSeq(str, Len(pat) + 1, Len(str)), pat, val)
         ELSE <<Head(str)>> \o Replace(Tail(str), pat, val)

\* the position of the first occurrence of the symbol, 0 when there is none
RECURSIVE IndexOf(_, _)
IndexOf(str, c) ==
    IF str = <<>> THEN 0
    ELSE IF Head(str) = c THEN 1
         ELSE LET i == IndexOf(Tail(str), c) IN IF i = 0 THEN 0 ELSE i + 1

\* str.split(sep)
RECURSIVE Split(_, _)
Split(str, sep) ==
    LET i == IndexOf(str, sep)
    IN  IF i = 0 THEN <<str>>
        ELSE <<SubSeq(str, 1, i - 1)>> \o Split(SubSeq(str, i + 1, Len(str)), sep)

\* a dict as the sequence of its items in insertion order: d[key] = value
DictSet(d, key, value) ==
    IF \E k \in 1..Len(d) : d[k].name = key
    THEN [k \in 1..Len(d) |-> IF d[k].name = key THEN [d[k] EXCEPT !.value = value] ELSE d[k]]
    ELSE Append(d, [name |-> key, value |-> value])
DictGet(d, key) == d[CHOOSE k \in 1..Len(d) : d[k].name = key].value

\* the first loop: the tags of the template, a part without "=" is joined to the last tag
RECURSIVE ParseTags(_, _, _)
ParseTags(parts, parsed, lastkey) ==
    IF parts = <<>> THEN parsed
    ELSE LET tag == Head(parts)
             i == IndexOf(tag, "=")
             key == SubSeq(tag, 1, i - 1)
         IN  IF i > 0
             THEN ParseTags(Tail(parts),
                            DictSet(parsed, key, SubSeq(tag, i + 1, Len(tag))), <<key>>)
             ELSE IF lastkey # <<>>
                  THEN ParseTags(Tail(parts),
                                 DictSet(parsed, lastkey[1],
                                         DictGet(parsed, lastkey[1]) \o <<",">> \o tag),
                                 lastkey)
                  ELSE ParseTags(Tail(parts), parsed, lastkey)

\* tag_vars: the copy of tag_variables updated with the variables of the scheduler
RECURSIVE DictUpdate(_, _)
DictUpdate(d, items) ==
    IF items = <<>> THEN d
    ELSE DictUpdate(DictSet(d, Head(items).name, Head(items).value), Tail(items))

TagVars(tag_variables, stack) ==
    DictUpdate(tag_variables,
               << [name |-> "scheduler", value |-> stack],
                  [name |-> "year", value |-> <<"2026">>],
                  [name |-> "month", value |-> <<"11">>],
                  [name |-> "day", value |-> <<"04">>],
                  [name |-> "hour", value |-> <<"01">>],
                  [name |-> "minute", value |-> <<"35">>],
                  [name |-> "timezone", value |-> <<"UTC">>] >>)

\* the inner loop: the variables are replaced one after the other in the order of tag_vars
RECURSIVE Substitute(_, _)
Substitute(value, tag_vars) ==
    IF tag_vars = <<>> THEN value
    ELSE Substitute(Replace(value, Placeholder(Head(tag_vars).name), Head(tag_vars).value),
                    Tail(tag_vars))

\* the second loop: every tag value that is not empty is substituted
SubstituteAll(parsed, tag_vars) ==
    [k \in 1..Len(parsed) |->
        IF parsed[k].value # <<>>
        THEN [parsed[k] EXCEPT !.value = Substitute(parsed[k].value, tag_vars)]
        ELSE parsed[k]]

build_tags_from_template(tags_str, tag_variables, stack) ==
    SubstituteAll(ParseTags(Split(tags_str, ","), <<>>, <<>>), TagVars(tag_variables, stack))

\* the variables of the engine and of the request handler
not_tags_vars ==
    << handler, window, desired, cfg, script, run_no, pc, table, state_info, loaded, gen, accounts_done, notices, notice_errors,
       account, region_idx, state_loaded, instances, start_list, stop_list, resize_list,
       decided, yields, started_instances, stopped_instances, resized_instances,
       response, usage_metrics, walked >>

\* the tags of the template are built
BuildTags ==
    /\ tags.at = "template"
    /\ tags' = [tags EXCEPT !.at = "built",
                            !.built = build_tags_from_template(tags.tags_str, tags.tag_variables,
                                                               tags.stack)]
    /\ UNCHANGED not_tags_vars

\* the substitution is applied to the tag values that were built
SubstituteAgain ==
    /\ tags.at = "built"
    /\ tags' = [tags EXCEPT !.at = "again",
                            !.again = SubstituteAll(tags.built,
                                                    TagVars(tags.tag_variables, tags.stack))]
    /\ UNCHANGED not_tags_vars

InitTags ==
    /\ \E t \in Templates(MaxPieces) : \E v \in TagVariables : \E n \in StackNames :
          tags = [ at |-> "template", tags_str |-> t, tag_variables |-> v, stack |-> n,
                   built |-> <<>>, again |-> <<>> ]
    /\ handler = NoHandler
    /\ window = NoWindow
    /\ desired = NoDesired
    /\ cfg = BaseConfiguration
    /\ script = NoScript
    /\ run_no = 0
    /\ pc = "idle"
    /\ table = [s \in Scopes |-> NoRecords]
    /\ state_info = NoRecords
    /\ loaded = NoScope
    /\ gen = 0
    /\ accounts_done = <<>>
    /\ notices = <<>>
    /\ notice_errors = <<>>
    /\ account = NoAccount
    /\ region_idx = 0
    /\ state_loaded = FALSE
    /\ instances = <<>>
    /\ start_list = <<>>
    /\ stop_list = <<>>
    /\ resize_list = <<>>
    /\ decided = <<>>
    /\ yields = NoYields
    /\ started_instances = EmptyMap
    /\ stopped_instances = EmptyMap
    /\ resized_instances = EmptyMap
    /\ response = EmptyMap
    /\ usage_metrics = NoUsage
    /\ walked = EmptyMap

NextTags ==
    \/ BuildTags
    \/ SubstituteAgain

SpecTags == InitTags /\ [][NextTags]_vars

\* C20: the substitution applied to the tag values that were built leaves them as they are
C20_ExpansionIdempotent ==
    tags.at = "again" => tags.again = tags.built

(***************************************************************************)
(* Ec2Service.ssm_maintenance_windows: the schedules built for the SSM     *)
(* maintenance windows of an account and region.  A time of day is         *)
(* <<hour, minute>>, NextExecutionTime is [month, day, hour, minute].      *)
(***************************************************************************)
MinutesPerDay == 24 * 60

\* datetime.time of the instant that is delta minutes after (before, when negative) the
\* time of day tod
TimeAfter(tod, delta) ==
    LET m == (tod[1] * 60 + tod[2] + delta) % MinutesPerDay
    IN  <<m \div 60, m % 60>>

\* a begin time that is not moved back by the scheduler frequency
BuildPeriod_BeginAtExecution(w, frequency) ==
    [ name |-> <<w.Name, "-period">>,
      begintime |-> <<w.NextExecutionTime.hour, w.NextExecutionTime.minute>>,
      endtime |-> TimeAfter(<<w.NextExecutionTime.hour, w.NextExecutionTime.minute>>,
                            w.Duration * 60),
      months |-> {w.NextExecutionTime.month},
      monthdays |-> {w.NextExecutionTime.day} ]

\* the period of one window
BuildPeriod(w, frequency) ==
    [ name |-> <<w.Name, "-period">>,
      begintime |-> TimeAfter(<<w.NextExecutionTime.hour, w.NextExecutionTime.minute>>,
                              0 - frequency),
      endtime |-> TimeAfter(<<w.NextExecutionTime.hour, w.NextExecutionTime.minute>>,
                            w.Duration * 60),
      months |-> {w.NextExecutionTime.month},
      monthdays |-> {w.NextExecutionTime.day} ]

\* the response: window name -> schedule with the one period of the window
ssm_maintenance_windows(window_list, frequency) ==
    [ n \in {window_list[k].Name : k \in 1..Len(window_list)} |->
        LET w == window_list[CHOOSE k \in 1..Len(window_list) : window_list[k].Name = n]
        IN  [ name |-> n, periods |-> <<[period |-> BuildPeriod(w, frequency)]>> ] ]

SsmWindow(name, duration, month, day, hour, minute) ==
    [ Name |-> name, Duration |-> duration,
      NextExecutionTime |-> [month |-> month, day |-> day, hour |-> hour, minute |-> minute] ]

\* the windows of the two tests
TestWindow1 == SsmWindow("mon-1", 1, 4, 9, 19, 0)
TestWindow2 == SsmWindow("mon-1", 1, 5, 10, 15, 0)

\* the windows get_ssm_windows returns: those of the tests and others around them, one
\* of them early and one late in the day
SsmWindows ==
    {TestWindow1, TestWindow2} \cup
    { SsmWindow("mon-1", d, mo, 9, h, mi) :
        d \in {1, 2, 5}, mo \in {4, 12}, h \in {0, 15, 19, 23}, mi \in {0, 5, 30} }
not_window_vars ==
    << handler, tags, desired, cfg, script, run_no, pc, table, state_info, loaded, gen,
       accounts_done, notices, notice_errors, account, region_idx, state_loaded, instances, start_list,
       stop_list, resize_list, decided, yields, started_instances, stopped_instances,
       resized_instances, response, usage_metrics, walked >>

\* the schedules of the windows are built, with the frequency of ENV_SCHEDULE_FREQUENCY
\* in minutes (10 in the tests)
BuildWindowSchedules ==
    /\ window.at = "listed"
    /\ window' = [window EXCEPT !.at = "built",
                                !.response = ssm_maintenance_windows(window.window_list,
                                                                     window.frequency)]
    /\ UNCHANGED not_window_vars

InitWindows ==
    /\ \E w \in SsmWindows : \E f \in {5, 10} :
          \E l \in {<<w>>, <<w, SsmWindow("tue-2", 2, 5, 10, 15, 30)>>} :
              window = [ at |-> "listed", window_list |-> l, frequency |-> f,
                         response |-> <<>> ]
    /\ handler = NoHandler
    /\ tags = NoTags
    /\ desired = NoDesired
    /\ cfg = BaseConfiguration
    /\ script = NoScript
    /\ run_no = 0
    /\ pc = "idle"
    /\ table = [s \in Scopes |-> NoRecords]
    /\ state_info = NoRecords
    /\ loaded = NoScope
    /\ gen = 0
    /\ accounts_done = <<>>
    /\ notices = <<>>
    /\ notice_errors = <<>>
    /\ account = NoAccount
    /\ region_idx = 0
    /\ state_loaded = FALSE
    /\ instances = <<>>
    /\ start_list = <<>>
    /\ stop_list = <<>>
    /\ resize_list = <<>>
    /\ decided = <<>>
    /\ yields = NoYields
    /\ started_instances = EmptyMap
    /\ stopped_instances = EmptyMap
    /\ resized_instances = EmptyMap
    /\ response = EmptyMap
    /\ usage_metrics = NoUsage
    /\ walked = EmptyMap

SpecWindows == InitWindows /\ [][BuildWindowSchedules]_vars

\* minutes from the time of day a to the time of day b, going forward
MinutesFromTo(a, b) == ((b[1] * 60 + b[2]) - (a[1] * 60 + a[2])) % MinutesPerDay

InScope == pc \in {"instances", "commit", "save"} \/ JustSaved

\* the record of the instance: the in-memory one, and the saved one after the save
RecordOf(id) == IF JustSaved THEN table[SavedScope][id] ELSE state_info[id]

\* C22: an instance whose last persisted state is retain_running keeps that record and
\* is on no list when the desired state is running, has the record stopped and is not on
\* the stop list when the desired state is stopped, and has the desired state as record
\* otherwise, under every schedule and in every live state
C22_RetainRunningRecord ==
    InScope =>
        \A d \in Decisions :
            d.last_desired_state = STATE_RETAIN_RUNNING =>
                /\ d.desired_state = STATE_RUNNING =>
                      /\ RecordOf(d.id) = STATE_RETAIN_RUNNING
                      /\ d.id \notin StartIds \cup StopIds \cup ResizeIds
                /\ d.desired_state = STATE_STOPPED =>
                      /\ RecordOf(d.id) = STATE_STOPPED
                      /\ d.id \notin StopIds
                /\ d.desired_state \notin {STATE_RUNNING, STATE_STOPPED} =>
                      RecordOf(d.id) = d.desired_state

(***************************************************************************)
(* Existing instances: enforced and non-enforced schedules                 *)
(***************************************************************************)
\* the instance is once on the list and not on the other one
OnlyOn(id, list, other) ==
    /\ Cardinality({k \in DOMAIN list : list[k].id = id}) = 1
    /\ id \notin IdsOf(other)

\* C23: an instance with a record other than retain_running on an enforced schedule is
\* on the stop list when it is running and the desired state is stopped, and on the
\* start list when it is not running and the desired state is running, also when the
\* last desired state is the desired state; the decision leaves its record alone
C23_EnforcedOverridesManualChange ==
    pc \in {"instances", "commit"} =>
        \A d \in Decisions :
            ( /\ ScheduleOf(d.id).enforced
              /\ d.last_desired_state \notin {STATE_UNKNOWN, STATE_RETAIN_RUNNING} ) =>
                /\ (InstanceOf(d.id).is_running /\ d.desired_state = STATE_STOPPED) =>
                      OnlyOn(d.id, stop_list, start_list)
                /\ (~InstanceOf(d.id).is_running /\ d.desired_state = STATE_RUNNING) =>
                      OnlyOn(d.id, start_list, stop_list)
                /\ EnforcedCase(d) => state_info[d.id] = d.last_desired_state

C23_ManualStopOverridden ==
    /\ pc = "commit"
    /\ \E d \in Decisions :
          /\ ScheduleOf(d.id).enforced
          /\ d.last_desired_state = STATE_RUNNING
          /\ d.desired_state = STATE_RUNNING
          /\ ~InstanceOf(d.id).is_running
          /\ OnlyOn(d.id, start_list, stop_list)

\* an instance has been decided in this step
Decides == pc = "instances" /\ Len(decided') = Len(decided) + 1

\* C24: for an instance with a record on a non-enforced schedule the decision is the
\* new-state transition when the last desired state differs from the desired state; when
\* they are equal the lists and the record are left as they are, whatever the live state
C24_PlainAppliesOnChangeOnly ==
    [][Decides =>
         LET d == decided'[Len(decided')]
             instance == instances'[Len(instances')]
             schedule == Schedules[instance.schedule_name]
             st == [states |-> StatesAtInstance, start |-> start_list,
                    stop |-> stop_list, resize |-> resize_list]
             after == [states |-> state_info', start |-> start_list',
                       stop |-> stop_list', resize |-> resize_list']
         IN  (~schedule.enforced /\ d.last_desired_state # STATE_UNKNOWN) =>
               IF d.last_desired_state # d.desired_state
               THEN after = process_new_desired_state(st, instance, d.desired_state,
                                d.desired_type, d.last_desired_state,
                                schedule.retain_running, ~d.resize_failed)
               ELSE /\ after = st
                    /\ state_info'[d.id] = d.last_desired_state
                    /\ d.id \notin IdsOf(start_list') \cup IdsOf(stop_list')
                                   \cup ResizeIdsOf(resize_list')]_vars

C24_ManualStartHonoured ==
    /\ pc = "commit"
    /\ \E d \in Decisions :
          /\ ~ScheduleOf(d.id).enforced
          /\ d.last_desired_state = STATE_STOPPED
          /\ d.desired_state = STATE_STOPPED
          /\ InstanceOf(d.id).is_running
          /\ state_info[d.id] = STATE_STOPPED
          /\ d.id \notin StartIds \cup StopIds \cup ResizeIds

(***************************************************************************)
(* The batch commit                                                        *)
(***************************************************************************)
\* the positions of the call in the calls of the scope
CallsOf(name) == {k \in DOMAIN yields.calls : yields.calls[k] = name}

\* C25: when a scope is saved start_instances has been called once if the start list
\* is not empty and not at all otherwise, likewise stop_instances and the stop list, a
\* call of start_instances came before one of stop_instances, and the record of every
\* id the driver yielded is after the save the state that was yielded for it, the one of
\* stop_instances if both calls yielded it
C25_BatchCommit ==
    [][EndsScope =>
         /\ Cardinality(CallsOf("start_instances")) = IF Len(start_list) > 0 THEN 1 ELSE 0
         /\ Cardinality(CallsOf("stop_instances")) = IF Len(stop_list) > 0 THEN 1 ELSE 0
         /\ \A i \in CallsOf("start_instances") : \A j \in CallsOf("stop_instances") : i < j
         /\ \A id \in Ids :
               LET from_start == IF id \in DOMAIN yields.start THEN yields.start[id] ELSE None
                   from_stop == IF id \in DOMAIN yields.stop THEN yields.stop[id] ELSE None
               IN  /\ from_stop # None => table'[CurrentScope][id] = from_stop
                   /\ (from_stop = None /\ from_start # None) =>
                         table'[CurrentScope][id] = from_start]_vars

C25_BothBatchesCommitted ==
    /\ JustSaved
    /\ yields.calls = <<"start_instances", "stop_instances">>
    /\ \E a \in DOMAIN yields.start : \E b \in DOMAIN yields.stop :
          /\ yields.start[a] = STATE_RUNNING /\ table[SavedScope][a] = STATE_RUNNING
          /\ yields.stop[b] = STATE_STOPPED /\ table[SavedScope][b] = STATE_STOPPED

(***************************************************************************)
(* Terminated instances                                                    *)
(***************************************************************************)
\* C26: a terminated instance the driver yielded has no record, in memory and after the
\* save of its scope, no decision was computed for it and it is on no list, whatever its
\* schedule name and its last desired state
C26_TerminatedDeletedAndIgnored ==
    InScope =>
        \A k \in DOMAIN instances :
            instances[k].is_terminated =>
                /\ RecordOf(instances[k].id) = STATE_UNKNOWN
                /\ \A d \in Decisions : d.id # instances[k].id
                /\ instances[k].id \notin StartIds \cup StopIds \cup ResizeIds

C26_RecordOfTerminatedDeleted ==
    /\ pc = "instances"
    /\ \E k \in DOMAIN instances :
          /\ instances[k].is_terminated
          /\ instances[k].schedule_name = "enfretain"
          /\ table[CurrentScope][instances[k].id] = STATE_RUNNING
          /\ state_info[instances[k].id] = STATE_UNKNOWN

(***************************************************************************)
(* InstanceScheduler.get_desired_state_and_type.  maintenance_window is    *)
(* <<>> (None) or <<w>> with w what the window's get_desired_state gives;  *)
(* use_maintenance_window is "True", "False" or "None"; schedule is what   *)
(* the schedule's get_desired_state gives.                                 *)
(***************************************************************************)
\* the function that lets a running window win whatever the schedule's flag
get_desired_state_and_type_AnyFlag(use_maintenance_window, maintenance_window, schedule) ==
    IF maintenance_window # <<>> /\ maintenance_window[1].state = STATE_RUNNING
    THEN [ state |-> maintenance_window[1].state, type |-> maintenance_window[1].type,
           evaluated |-> <<"window">> ]
    ELSE [ state |-> schedule.state, type |-> schedule.type,
           evaluated |-> (IF maintenance_window # <<>> THEN <<"window">> ELSE <<>>)
                             \o <<"schedule">> ]

get_desired_state_and_type(use_maintenance_window, maintenance_window, schedule) ==
    LET in_window == maintenance_window # <<>> /\ use_maintenance_window = "True"
    IN  IF in_window /\ maintenance_window[1].state = STATE_RUNNING
        THEN [ state |-> maintenance_window[1].state, type |-> maintenance_window[1].type,
               evaluated |-> <<"window">> ]
        ELSE [ state |-> schedule.state, type |-> schedule.type,
               evaluated |-> (IF in_window THEN <<"window">> ELSE <<>>) \o <<"schedule">> ]

\* what a schedule or a window evaluates to
Evaluations ==
    [ state : DesiredStates, type : DesiredTypes ]

not_desired_vars ==
    << handler, tags, window, cfg, script, run_no, pc, table, state_info, loaded, gen,
       accounts_done, notices, notice_errors, account, region_idx, state_loaded, instances, start_list,
       stop_list, resize_list, decided, yields, started_instances, stopped_instances,
       resized_instances, response, usage_metrics, walked >>

\* _process_account calls get_desired_state_and_type for the instance
GetDesiredStateAndType ==
    /\ desired.at = "called"
    /\ desired' = [desired EXCEPT
                      !.at = "returned",
                      !.result = get_desired_state_and_type(desired.use_maintenance_window,
                                                            desired.maintenance_window,
                                                            desired.schedule)]
    /\ UNCHANGED not_desired_vars

InitDesired ==
    /\ \E f \in {"True", "False", "None"} : \E sched \in Evaluations :
          \E mw \in {<<>>} \cup {<<w>> : w \in Evaluations} :
              desired = [ at |-> "called", use_maintenance_window |-> f,
                          maintenance_window |-> mw, schedule |-> sched,
                          result |-> [state |-> None, type |-> None, evaluated |-> <<>>] ]
    /\ handler = NoHandler
    /\ tags = NoTags
    /\ window = NoWindow
    /\ cfg = BaseConfiguration
    /\ script = NoScript
    /\ run_no = 0
    /\ pc = "idle"
    /\ table = [s \in Scopes |-> NoRecords]
    /\ state_info = NoRecords
    /\ loaded = NoScope
    /\ gen = 0
    /\ accounts_done = <<>>
    /\ notices = <<>>
    /\ notice_errors = <<>>
    /\ account = NoAccount
    /\ region_idx = 0
    /\ state_loaded = FALSE
    /\ instances = <<>>
    /\ start_list = <<>>
    /\ stop_list = <<>>
    /\ resize_list = <<>>
    /\ decided = <<>>
    /\ yields = NoYields
    /\ started_instances = EmptyMap
    /\ stopped_instances = EmptyMap
    /\ resized_instances = EmptyMap
    /\ response = EmptyMap
    /\ usage_metrics = NoUsage
    /\ walked = EmptyMap

SpecDesired == InitDesired /\ [][GetDesiredStateAndType]_vars

\* C27: the window's running state and type are returned when the schedule has
\* use_maintenance_window true, the instance has a window and the window evaluates to
\* running; in every other case the schedule's own state and type are returned, and the
\* window was evaluated only when the flag is true and the instance has one
C27_WindowPrecedence ==
    desired.at = "returned" =>
        LET has_window == desired.maintenance_window # <<>>
            opted_in == desired.use_maintenance_window = "True"
            wins == /\ opted_in
                    /\ has_window
                    /\ desired.maintenance_window[1].state = STATE_RUNNING
        IN  /\ wins => /\ desired.result.state = STATE_RUNNING
                       /\ desired.result.type = desired.maintenance_window[1].type
                       /\ desired.result.evaluated = <<"window">>
            /\ ~wins => /\ desired.result.state = desired.schedule.state
                        /\ desired.result.type = desired.schedule.type
            /\ "window" \in Range(desired.result.evaluated) <=> (opted_in /\ has_window)

C27_WindowWinsOverStoppedSchedule ==
    /\ desired.at = "returned"
    /\ desired.use_maintenance_window = "True"
    /\ desired.maintenance_window # <<>>
    /\ desired.schedule.state = STATE_STOPPED
    /\ desired.result.state = STATE_RUNNING
    /\ desired.result.type # desired.schedule.type

(***************************************************************************)
(* stopped_for_resize                                                      *)
(***************************************************************************)
\* a decision that went through the decision step with desired state stopped_for_resize
ResizeStopCase(d) ==
    /\ d.desired_state = STATE_STOPPED_FOR_RESIZE
    /\ AppliesNewState(InstanceOf(d.id), ScheduleOf(d.id), d.desired_state, d.last_desired_state)

\* C28: the decision step never leaves stopped_for_resize as the record of an instance;
\* a running instance whose desired state is stopped_for_resize is on the stop list with
\* its resized marker set, and one that is not running has the record stopped
C28_StoppedForResizeTransient ==
    pc \in {"instances", "commit"} =>
        /\ \A id \in Ids : state_info[id] # STATE_STOPPED_FOR_RESIZE
        /\ \A d \in Decisions :
              ResizeStopCase(d) =>
                  IF InstanceOf(d.id).is_running
                  THEN \E k \in DOMAIN stop_list :
                           stop_list[k].id = d.id /\ stop_list[k].resized
                  ELSE state_info[d.id] = STATE_STOPPED

(***************************************************************************)
(* The deconfigure notice                                                  *)
(***************************************************************************)
\* assume_role is about to be called for the next remote account
AssumesRole == AtRemote /\ cfg.remote_account_ids[RemoteIdx] \notin Range(accounts_done)

LastAccountFinished ==
    account # NoAccount =>
        /\ \A r \in Range(regions(cfg)) : <<account.name, r>> \in DOMAIN walked
        /\ account.name \in DOMAIN response

\* C30: with schedule_lambda_account the first account yielded is the hosting account,
\* with no role; the remote accounts are yielded at increasing positions of
\* remote_account_ids; a session is requested and an account is yielded only after every
\* region of the account yielded before it has been saved
C30_AccountOrder ==
    [][ /\ AccountBegins =>
              IF cfg.schedule_lambda_account /\ account = NoAccount
              THEN account' = [name |-> LambdaAccount, role |-> NoRole]
              ELSE \E k \in DOMAIN cfg.remote_account_ids :
                       /\ k >= gen
                       /\ gen' = k + 1
                       /\ account' = [name |-> cfg.remote_account_ids[k],
                                      role |-> RoleOf(cfg.remote_account_ids[k])]
        /\ AccountBegins \/ AssumesRole => LastAccountFinished
      ]_vars

\* the second remote account has been yielded after the hosting account and the first
\* remote account returned their results
C30_ThirdAccountYielded ==
    /\ cfg = RemotesConfiguration
    /\ pc = "region"
    /\ region_idx = 1
    /\ account = [name |-> "a2", role |-> RoleOf("a2")]
    /\ DOMAIN response = {LambdaAccount, "a1"}

(***************************************************************************)
(* The usage counters                                                      *)
(***************************************************************************)
MachineTypes == InstanceTypes \cup (DesiredTypes \ {None})

\* the type a start list entry is counted under: the new type of its resize list entry
\* when it has one, else its current type
CountedType(i) ==
    LET js == {j \in DOMAIN resize_list : resize_list[j][1].id = i.id}
    IN  IF js = {} THEN i.instancetype ELSE resize_list[CHOOSE j \in js : TRUE][2]

\* C31: with telemetry allowed, the end of a scope adds to Started[t] the number of its
\* start list entries counted under t, to Stopped[t] the number of its stop list entries
\* of current type t and to Resized[old-new] the number of its resize list entries with
\* that change; a run starts from empty counters and no other step touches them, so at
\* the end of the cycle they are the sums over the scopes
C31_UsageCounters ==
    [][ /\ EndsScope /\ cfg.send_metrics =>
              /\ \A t \in MachineTypes :
                    /\ Get(usage_metrics'.Started, t, 0) =
                          Get(usage_metrics.Started, t, 0)
                          + Cardinality({k \in DOMAIN start_list :
                                            CountedType(start_list[k]) = t})
                    /\ Get(usage_metrics'.Stopped, t, 0) =
                          Get(usage_metrics.Stopped, t, 0)
                          + Cardinality({k \in DOMAIN stop_list :
                                            stop_list[k].instancetype = t})
              /\ \A old \in MachineTypes, new \in MachineTypes :
                    Get(usage_metrics'.Resized, <<old, new>>, 0) =
                        Get(usage_metrics.Resized, <<old, new>>, 0)
                        + Cardinality({k \in DOMAIN resize_list :
                                          /\ resize_list[k][1].instancetype = old
                                          /\ resize_list[k][2] = new})
        /\ pc \in {"idle", "raised"} /\ pc' = "accounts" => usage_metrics' = NoUsage
        /\ ~EndsScope /\ pc \notin {"idle", "raised"} => usage_metrics' = usage_metrics
      ]_vars

\* a run over two regions and a remote account returned with starts counted in more than
\* one scope
C31_CountedOverScopes ==
    /\ Returned
    /\ cfg = TwoRegionsConfiguration
    /\ "a1" \in DOMAIN response
    /\ Get(usage_metrics.Started, "t2", 0) = 2
    /\ Get(usage_metrics.Resized, <<"t1", "t2">>, 0) = 2
    /\ Get(usage_metrics.Started, "t1", 0) >= 2

(***************************************************************************)
(* The scopes of the state table                                           *)
(***************************************************************************)
\* C32: the cleanup and save of a scope leave the records of every other scope as they
\* were; a scope that yields no instances leaves the records saved for the scope
\* processed before it exactly as they were saved
C32_OtherScopesUntouched ==
    [][ EndsScope => \A s \in Scopes : s # CurrentScope => table'[s] = table[s] ]_vars

(***************************************************************************)
(* The records of batched instances                                        *)
(***************************************************************************)
\* C33: while the scope is decided, the record of an instance on the start or the stop
\* list is the record it had before; after the batch commit it is the state the driver
\* yielded for it, or still the record it had before when the driver yielded none
C33_BatchedRecordFromDriverOnly ==
    InScope =>
        \A d \in Decisions :
            Batched(d.id) =>
                IF pc \in {"instances", "commit"} \/ YieldedFor(d.id) = None
                THEN RecordOf(d.id) = d.last_desired_state
                ELSE RecordOf(d.id) = YieldedFor(d.id)

\* a stop was batched for an instance recorded as running, the driver yielded nothing
\* for it and the scope was saved
C33_NoResultKeepsRecord ==
    /\ JustSaved
    /\ \E d \in Decisions :
          /\ d.id \in StopIds
          /\ d.last_desired_state = STATE_RUNNING
          /\ YieldedFor(d.id) = None
          /\ table[SavedScope][d.id] = STATE_RUNNING

(***************************************************************************)
(* The members of the batches                                              *)
(***************************************************************************)
\* the decision of the scope for the instance of a list entry
DecisionFor(i) == CHOOSE d \in Decisions : d.id = i.id

\* C34: every start list entry is an instance observed not running with a desired state
\* of running, every stop list entry one observed running with a desired state of
\* stopped or stopped_for_resize, and no instance is twice on a list
C34_BatchMembership ==
    InScope =>
        /\ \A k \in DOMAIN start_list :
              /\ \E d \in Decisions : d.id = start_list[k].id
              /\ ~InstanceOf(start_list[k].id).is_running
              /\ ~start_list[k].is_running
              /\ DecisionFor(start_list[k]).desired_state = STATE_RUNNING
              /\ \A j \in DOMAIN start_list : start_list[j].id = start_list[k].id => j = k
        /\ \A k \in DOMAIN stop_list :
              /\ \E d \in Decisions : d.id = stop_list[k].id
              /\ InstanceOf(stop_list[k].id).is_running
              /\ stop_list[k].is_running
              /\ DecisionFor(stop_list[k]).desired_state
                     \in {STATE_STOPPED, STATE_STOPPED_FOR_RESIZE}
              /\ \A j \in DOMAIN stop_list : stop_list[j].id = stop_list[k].id => j = k

\* a scope with one instance on the start list and another on the stop list for a
\* resize
C34_StartAndResizeStopBatched ==
    /\ pc = "commit"
    /\ Len(start_list) = 1
    /\ Len(stop_list) = 1
    /\ DecisionFor(stop_list[1]).desired_state = STATE_STOPPED_FOR_RESIZE

(***************************************************************************)
(* Enforced schedules without a mismatch                                   *)
(***************************************************************************)
\* an instance with a record, on an enforced schedule, whose live state does not
\* contradict a desired state of running or stopped
NoMismatchCase(d) ==
    /\ d.last_desired_state # STATE_UNKNOWN
    /\ ScheduleOf(d.id).enforced
    /\ \/ InstanceOf(d.id).is_running /\ d.desired_state = STATE_RUNNING
       \/ ~InstanceOf(d.id).is_running /\ d.desired_state = STATE_STOPPED
       \/ d.desired_state \in {STATE_ANY, STATE_STOPPED_FOR_RESIZE}

\* C35: such an instance is placed on no list, no resize is called for it and its record
\* stays what it was, even when the last desired state differs from the desired state
C35_EnforcedWithoutMismatchIdle ==
    pc \in {"instances", "commit"} =>
        \A d \in Decisions :
            NoMismatchCase(d) =>
                /\ d.id \notin StartIds \cup StopIds \cup ResizeIds
                /\ ~ResizeCallMade(d)
                /\ state_info[d.id] = d.last_desired_state

\* a running instance of an enforced schedule with the record stopped and a desired
\* state of running: the record is still stopped
C35_ChangedDesiredStateIgnored ==
    /\ pc = "commit"
    /\ \E d \in Decisions :
          /\ NoMismatchCase(d)
          /\ InstanceOf(d.id).is_running
          /\ d.desired_state = STATE_RUNNING
          /\ d.last_desired_state = STATE_STOPPED
          /\ state_info[d.id] = STATE_STOPPED

(***************************************************************************)
(* The resize list                                                         *)
(***************************************************************************)
\* the new-state transition is applied to an instance that is not running, with a desired
\* state of running and a desired type that differs from its type, and the instance does
\* not allow the resize
ResizeRefusedCase(d) ==
    /\ ~InstanceOf(d.id).is_running
    /\ d.desired_state = STATE_RUNNING
    /\ d.desired_type \notin {None, InstanceOf(d.id).instancetype}
    /\ ~InstanceOf(d.id).allow_resize
    /\ d.last_desired_state # STATE_RETAIN_RUNNING
    /\ \/ d.last_desired_state = STATE_UNKNOWN
       \/ ScheduleOf(d.id).enforced
       \/ d.last_desired_state # d.desired_state

\* C36: every resize list entry is for an instance observed not running that allows the
\* resize, with a new type different from its type, and the instance is on the start list;
\* an instance whose desired type differs but that does not allow the resize is never on
\* the resize list, no resize is called for it, and it is still placed on the start list
C36_ResizeListMembers ==
    InScope =>
        /\ \A k \in DOMAIN resize_list :
              LET i == resize_list[k][1]
                  new == resize_list[k][2]
              IN  /\ i = InstanceOf(i.id)
                  /\ ~i.is_running
                  /\ i.allow_resize
                  /\ new # None
                  /\ new # i.instancetype
                  /\ new = DecisionFor(i).desired_type
                  /\ i.id \in StartIds
        /\ \A d \in Decisions :
              /\ ( /\ d.desired_type \notin {None, InstanceOf(d.id).instancetype}
                   /\ ~InstanceOf(d.id).allow_resize ) =>
                     ~ResizeCallMade(d)
              /\ ResizeRefusedCase(d) => d.id \in StartIds

\* an instance that does not allow the resize is on the start list and not on the
\* resize list
C36_RefusedResizeStillStarted ==
    /\ pc = "commit"
    /\ \E d \in Decisions :
          /\ ResizeRefusedCase(d)
          /\ d.id \in StartIds
          /\ d.id \notin ResizeIds

(***************************************************************************)
(* A deconfigure notice that cannot be invoked                             *)
(***************************************************************************)
\* C37: when the invoke of the deconfigure notice raises, the error is logged and
\* swallowed: the account is skipped, nothing of the run is lost and the generator goes
\* on to the next remote account
C37_NoticeFailureSwallowed ==
    [][ ( /\ AssumesRole
          /\ script.assume[cfg.remote_account_ids[RemoteIdx]] = "AccessDeniedNoInvoke" ) =>
              /\ notice_errors' = Append(notice_errors, cfg.remote_account_ids[RemoteIdx])
              /\ pc' = "accounts"
              /\ gen' = RemoteIdx + 1
              /\ account' = account
              /\ response' = response
              /\ table' = table
      ]_vars

\* the notice for the first remote account could not be invoked and the run returned
\* with the results of the hosting account and of the second remote account
C37_RunReturnsAfterNoticeFailure ==
    /\ Returned
    /\ cfg = RemotesConfiguration
    /\ script.assume["a1"] = "AccessDeniedNoInvoke"
    /\ "a1" \in Range(notice_errors)
    /\ DOMAIN response = {LambdaAccount, "a2"}

(***************************************************************************)
(* Termination.  The runs of every configuration with collaborators that   *)
(* do not fail: the driver, the state store and the lambda client raise    *)
(* nothing and assume_role either returns or fails with a ClientError.     *)
(* run is one sequential loop, so a step that is enabled is taken.         *)
(***************************************************************************)
InitReturns ==
    \E c \in Configurations : \E scr \in ConfigScripts(c) :
        /\ ~scr.raises
        /\ \A a \in AllAccounts : scr.assume[a] \in {"ok", "AccessDenied", "Other"}
        /\ InitWith(c, scr)

NextReturns ==
    \/ RunStart
    \/ YieldLambdaAccount
    \/ SkipDuplicateAccount
    \/ YieldRemoteAccount
    \/ AssumeRoleAccessDenied
    \/ AssumeRoleOtherError
    \/ RunReturn
    \/ RegionStart
    \/ ObserveTerminated
    \/ ObserveUnknownSchedule
    \/ ObserveAndDecide
    \/ EndInstances
    \/ StartAndStop
    \/ CleanupAndSave
    \/ AccountDone

SpecReturns == InitReturns /\ [][NextReturns]_vars /\ WF_vars(NextReturns)

\* the accounts a session is obtained for in a run
SessionAccounts ==
    (IF cfg.schedule_lambda_account THEN {LambdaAccount} ELSE {})
        \cup {a \in AssumedAccounts(cfg) : script.assume[a] = "ok"}

\* C38: a run that was started returns; no scope is processed a second time in a run;
\* and when run has returned, the scopes processed are the pairs of the accounts a
\* session was obtained for with the regions, the returned map having one key for each
\* of these accounts
C38_RunReturnsEachScopeOnce ==
    /\ (pc = "accounts") ~> (pc = "idle")
    /\ [][BeginsRegion => CurrentScope \notin DOMAIN walked]_vars
    /\ [](pc = "idle" /\ run_no > 0 =>
             /\ DOMAIN response = SessionAccounts
             /\ DOMAIN walked = SessionAccounts \X Range(regions(cfg)))

(***************************************************************************)
(* SchedulerConfig.tag_list.  A string is the sequence of its pieces, a    *)
(* dict the sequence of its items in insertion order.                      *)
(***************************************************************************)
MaxTags == 2

\* the dicts handed to tag_list: up to MaxTags items with distinct keys, among them keys
\* with a reserved prefix and keys that hold "aws:" elsewhere
RECURSIVE TagDicts(_)
TagDicts(n) ==
    IF n = 0 THEN {<<>>}
    ELSE TagDicts(n - 1)
         \cup { a \in { Append(d, [name |-> k, value |-> v]) :
                          d \in {e \in TagDicts(n - 1) : Len(e) = n - 1},
                          k \in { <<"Name">>, <<"aws:", "Name">>,
                                  <<"cloudformation:", "stack">>, <<"x", "aws:">>,
                                  <<"aws">>, <<"team">> },
                          v \in { <<>>, <<"v">> } } :
                  \A i \in 1..(Len(a) - 1) : a[i].name # a[Len(a)].name }

\* the key has none of the reserved prefixes
IsValidTag(t) == ~(StartsWith(t.name, <<"aws:">>) \/ StartsWith(t.name, <<"cloudformation:">>))

\* SchedulerConfig.tag_list: valid_tags is computed, and is a dict whatever it holds; the
\* list that is returned is built from tags_dict
tag_list(tags_dict) ==
    LET valid_tags == SelectSeq(tags_dict, IsValidTag)
        valid_tags_is_not_None == Len(valid_tags) >= 0
    IN  IF valid_tags_is_not_None
        THEN [k \in 1..Len(tags_dict) |->
                 [Key |-> tags_dict[k].name, Value |-> tags_dict[k].value]]
        ELSE <<>>

\* tag_list is called on the dict
TagList ==
    /\ tags.at = "dict"
    /\ tags' = [tags EXCEPT !.at = "listed", !.listed = tag_list(tags.tags_dict)]
    /\ UNCHANGED not_tags_vars

InitTagList ==
    /\ \E d \in TagDicts(MaxTags) : tags = [ at |-> "dict", tags_dict |-> d, listed |-> <<>> ]
    /\ handler = NoHandler
    /\ window = NoWindow
    /\ desired = NoDesired
    /\ cfg = BaseConfiguration
    /\ script = NoScript
    /\ run_no = 0
    /\ pc = "idle"
    /\ table = [s \in Scopes |-> NoRecords]
    /\ state_info = NoRecords
    /\ loaded = NoScope
    /\ gen = 0
    /\ accounts_done = <<>>
    /\ notices = <<>>
    /\ notice_errors = <<>>
    /\ account = NoAccount
    /\ region_idx = 0
    /\ state_loaded = FALSE
    /\ instances = <<>>
    /\ start_list = <<>>
    /\ stop_list = <<>>
    /\ resize_list = <<>>
    /\ decided = <<>>
    /\ yields = NoYields
    /\ started_instances = EmptyMap
    /\ stopped_instances = EmptyMap
    /\ resized_instances = EmptyMap
    /\ response = EmptyMap
    /\ usage_metrics = NoUsage
    /\ walked = EmptyMap

SpecTagList == InitTagList /\ [][TagList]_vars

\* C39: the list tag_list returns holds no tag whose key starts with "aws:" or
\* "cloudformation:", and exactly one Key/Value entry for each item of the dict whose key
\* has neither prefix
C39_ReservedTagsFiltered ==
    tags.at = "listed" =>
        /\ \A k \in DOMAIN tags.listed :
              /\ ~StartsWith(tags.listed[k].Key, <<"aws:">>)
              /\ ~StartsWith(tags.listed[k].Key, <<"cloudformation:">>)
        /\ \A j \in DOMAIN tags.tags_dict :
              IsValidTag(tags.tags_dict[j]) =>
                  Cardinality({k \in DOMAIN tags.listed :
                                  /\ tags.listed[k].Key = tags.tags_dict[j].name
                                  /\ tags.listed[k].Value = tags.tags_dict[j].value}) = 1
        /\ Len(tags.listed) = Cardinality({j \in DOMAIN tags.tags_dict :
                                              IsValidTag(tags.tags_dict[j])})


====
